---- MODULE Spec2Model ----
(***************************************************************************)
(* A model of kconfiglib: the Kconfig lexer (parser/streams.rs), the       *)
(* expression parser and printer (parser/expr.rs) and the resolver that    *)
(* expands source statements and flattens if blocks (parser/block.rs,      *)
(* parser/kconfig.rs, parser/source.rs, parser/ifblock.rs, parser/menu.rs).*)
(***************************************************************************)
EXTENDS Integers, Sequences, FiniteSets, TLC

VARIABLES
    pc,        \* position of the operation in progress
    api,       \* which entry point is being exercised
    files,     \* the file system: path -> file
    input,     \* the block list as parsed, before resolution
    blocks,    \* KConfig.blocks / the Vec<Located<Block>> being resolved
    idx,       \* loop index i of resolve_blocks_recursive
    err,       \* the error returned, NoErr when none
    returned,  \* the value resolve_block returned to read_from_str
    last,      \* the last Source/If evaluation: what went in, what came out
    src,       \* lexer / expression parser: the input text (a sequence of characters)
    scan,      \* lexer: the PeekableChars cursor
    lines,     \* lexer: the token lines produced so far
    expr,      \* expression parser: the tree parsed first
    text,      \* expression printer: Display output of expr
    expr2,     \* expression parser: the tree parsed from text
    stack,     \* block parser: the blocks still open, innermost last
    lines_offset \* block parser: PeekableTokenLines.offset

vars == <<pc, api, files, input, blocks, idx, err, returned, last,
          src, scan, lines, expr, text, expr2, stack, lines_offset>>

----------------------------------------------------------------------------
(* Bounds of the model.                                                    *)

\* Number of statements in the top-level block list.
MaxTop == 2

\* Number of operands in an expression written without parentheses.
MaxOperands == 3

\* Number of empty lines between `help` and the help text.
MaxBlank == 1

\* Number of spaces the first line of a help text is indented by.
MaxIndent == 2

----------------------------------------------------------------------------
(* Expressions (parser/expr.rs, enum Expr).  Locations are not part of the *)
(* structure compared here.                                                *)

Sym(n) == [kind |-> "Symbol", name |-> n]
IntE(i) == [kind |-> "Integer", num |-> i]
HexE(i) == [kind |-> "Hex", num |-> i]
StrE(s) == [kind |-> "String", name |-> s]
NotE(e) == [kind |-> "Not", lhs |-> e]
AndE(l, r) == [kind |-> "And", lhs |-> l, rhs |-> r]
OrE(l, r) == [kind |-> "Or", lhs |-> l, rhs |-> r]
CmpE(o, l, r) == [kind |-> "Cmp", lhs |-> l, op |-> o, rhs |-> r]

\* Option<&LocExpr>::None
NoExpr == [kind |-> "None"]

----------------------------------------------------------------------------
(* Blocks (parser/block.rs, enum Block).  One record shape serves every    *)
(* variant; the fields a variant does not have keep their empty value.     *)

NoDir == "-"

Block(k, n, deps, its, c, fname, opt, rel) ==
    [kind |-> k, name |-> n, depends_on |-> deps, items |-> its, condition |-> c,
     filename |-> fname, optional |-> opt, relative |-> rel, base_dir |-> NoDir]

NoFile == [var |-> "", inline |-> FALSE, path |-> ""]

Config(n, deps) == Block("Config", n, deps, <<>>, NoExpr, NoFile, FALSE, FALSE)
MenuConfig(n, deps) == Block("MenuConfig", n, deps, <<>>, NoExpr, NoFile, FALSE, FALSE)
Choice(n, deps) == Block("Choice", n, deps, <<>>, NoExpr, NoFile, FALSE, FALSE)
Mainmenu(n) == Block("Mainmenu", n, <<>>, <<>>, NoExpr, NoFile, FALSE, FALSE)
Menu(n, deps, its) == Block("Menu", n, deps, its, NoExpr, NoFile, FALSE, FALSE)
IfBlock(c, its) == Block("If", <<>>, <<>>, its, c, NoFile, FALSE, FALSE)
Source(fname, opt, rel) == Block("Source", <<>>, <<>>, <<>>, NoExpr, fname, opt, rel)

\* A file name as written in a source statement: an optional ${var} prefix,
\* the inline: scheme, and the path proper.
FileName(p) == [var |-> "", inline |-> FALSE, path |-> p]

----------------------------------------------------------------------------
(* Errors (parser/error.rs, KConfigErrorKind) and results.                 *)

NoErr == [kind |-> "None", io |-> "", name |-> ""]
IoErr(k) == [kind |-> "Io", io |-> k, name |-> ""]
ParseErr == [kind |-> "Parse", io |-> "", name |-> ""]
UnknownEnv(v) == [kind |-> "UnknownEnv", io |-> "", name |-> v]

Ok(bs) == [st |-> "ok", blocks |-> bs, err |-> NoErr]
Err(e) == [st |-> "err", blocks |-> <<>>, err |-> e]
Panic == [st |-> "panic", blocks |-> <<>>, err |-> NoErr]

----------------------------------------------------------------------------
(* The file system and the variable context the resolver reads.            *)

BaseDir == "base"      \* the base_dir handed to the top-level parse
TopDir == "top"        \* the directory of the top-level Kconfig file
InlineDir == "inline:" \* cache_path(INLINE_PREFIX), the file name of inline text

\* Variables the Context defines (Context::var returns Ok for these only).
ContextVars == {"IDF_PATH"}

File(st, bs) == [state |-> st, blocks |-> bs]
MissingFile == File("missing", <<>>)

FileAt(path) == IF path \in DOMAIN files THEN files[path] ELSE MissingFile

\* Source::parse: a relative statement records the directory of the file that
\* contains it, any other the base directory of the parse.
SourceBaseDir(rel, file_dir, base_dir) == IF rel THEN file_dir ELSE base_dir

\* The block parser applied to a file's text: the blocks as written, every
\* Source (at any nesting depth) with the base_dir Source::parse computes.
RECURSIVE ParsedBlocks(_, _, _)
ParsedBlock(b, file_dir, base_dir) ==
    IF b.kind = "Source"
    THEN [b EXCEPT !.base_dir = SourceBaseDir(b.relative, file_dir, base_dir)]
    ELSE [b EXCEPT !.items = ParsedBlocks(b.items, file_dir, base_dir)]

ParsedBlocks(bs, file_dir, base_dir) ==
    IF bs = <<>> THEN <<>>
    ELSE <<ParsedBlock(Head(bs), file_dir, base_dir)>>
             \o ParsedBlocks(Tail(bs), file_dir, base_dir)

\* KConfig::from_str_raw on the text stored at path.
KConfig_from_str_raw(path, base_dir) ==
    IF FileAt(path).state = "bad" THEN Err(ParseErr)
    ELSE Ok(ParsedBlocks(FileAt(path).blocks, path[1], base_dir))

\* File::open + read_to_string.
OpenFile(path) ==
    IF FileAt(path).state = "missing" THEN Err(IoErr("NotFound"))
    ELSE IF FileAt(path).state = "denied" THEN Err(IoErr("PermissionDenied"))
    ELSE Ok(<<>>)

----------------------------------------------------------------------------
(* If flattening and source expansion as block.rs implements them          *)
(* (LocatedBlocks::resolve_blocks_recursive, IfBlock::evaluate).           *)

HasDependsOn(b) == b.kind \in {"Choice", "Config", "Menu", "MenuConfig"}

\* A variant that puts the if condition in front of the item's own entries.
PushConditionFirst(item, cond) ==
    IF HasDependsOn(item) THEN [item EXCEPT !.depends_on = <<cond>> \o @] ELSE item

\* block.rs 291-297: the if condition is pushed onto the item's depends_on.
PushCondition(item, cond) ==
    IF HasDependsOn(item) THEN [item EXCEPT !.depends_on = Append(@, cond)] ELSE item

\* A variant that combines the conditions innermost first.
NestConditionInnerFirst(outer, inner) == AndE(inner, outer)

\* block.rs 280-285: the condition given to a nested if block.
NestCondition(outer, inner) == AndE(outer, inner)

\* block.rs 270-304: IfBlock::evaluate, as a fold over self.items.
RECURSIVE IfBlock_evaluate_items(_, _)
IfBlock_evaluate_items(its, cond) ==
    IF its = <<>> THEN <<>>
    ELSE (IF Head(its).kind = "If"
          THEN IfBlock_evaluate_items(Head(its).items,
                                      NestCondition(cond, Head(its).condition))
          ELSE <<PushCondition(Head(its), cond)>>)
         \o IfBlock_evaluate_items(Tail(its), cond)

IfBlock_evaluate(b) == IfBlock_evaluate_items(b.items, b.condition)

----------------------------------------------------------------------------
(* Resolution as the ResolveBlock trait implements it (resolve.rs,         *)
(* kconfig.rs, source.rs, ifblock.rs, menu.rs).                            *)

\* The ? operator between two results whose blocks are concatenated.
Concat(h, t) ==
    IF h.st # "ok" THEN h ELSE IF t.st # "ok" THEN t ELSE Ok(h.blocks \o t.blocks)

\* ifblock.rs 86-92: AND the parent condition with the block's own.
SubCondition(parent_cond, cond) ==
    IF parent_cond # NoExpr THEN AndE(parent_cond, cond) ELSE cond

\* A variant that absorbs every I/O error, optional or not.
AbsorbsEveryIoError(e, optional) == e.kind = "Io"

\* source.rs 116-129: which errors of KConfig::from_file a Source absorbs.
AbsorbsError(e, optional) ==
    e.kind = "Io" /\ ~(e.io # "NotFound" \/ ~optional)

\* source.rs 114-130: the match on the result of KConfig::from_file.
SourceResult(r, optional) ==
    IF r.st # "err" THEN r
    ELSE IF AbsorbsError(r.err, optional) THEN Ok(<<>>)
    ELSE r

\* source.rs 102-108: the directory a file name is joined to.
SourceDir(s, base_dir) == IF s.relative THEN s.base_dir ELSE base_dir

\* The blocks a dependency-carrying block becomes under a parent condition.
AppendParentCond(b, parent_cond) ==
    IF parent_cond # NoExpr /\ HasDependsOn(b)
    THEN [b EXCEPT !.depends_on = Append(@, parent_cond)]
    ELSE b

\* kconfig.rs 37-39: the value of resolve_block is dropped, only its error
\* is propagated; self.blocks stays what read_from_str_raw made it.
DropResolved(r, raw) == IF r.st = "ok" THEN Ok(raw) ELSE r

\* menu.rs 131-143: the menu rebuilt around its resolved blocks, with the
\* assertion that no if block is left among them.
MenuResult(m, r) ==
    IF r.st # "ok" THEN r
    ELSE IF \E i \in 1..Len(r.blocks) : r.blocks[i].kind = "If" THEN Panic
    ELSE Ok(<<[m EXCEPT !.items = r.blocks]>>)

MenuUnder(mr, parent_cond) ==
    IF mr.st # "ok" THEN mr ELSE Ok(<<AppendParentCond(mr.blocks[1], parent_cond)>>)

RECURSIVE Vec_resolve_block(_, _, _)
RECURSIVE Block_resolve_block(_, _, _)
RECURSIVE Source_resolve_block(_, _, _)
RECURSIVE IfBlock_resolve_items(_, _, _)
RECURSIVE KConfig_from_file(_, _)

\* kconfig.rs 93-112: KConfig::resolve_block.
KConfig_resolve_block(bs, base_dir, parent_cond) ==
    Vec_resolve_block(bs, base_dir, parent_cond)

\* kconfig.rs 33-40: read_from_str after read_from_str_raw has filled
\* self.blocks with raw.
KConfig_read_from_str(raw, base_dir) ==
    DropResolved(KConfig_resolve_block(raw, base_dir, NoExpr), raw)

ReadParsed(raw, base_dir) ==
    IF raw.st # "ok" THEN raw ELSE KConfig_read_from_str(raw.blocks, base_dir)

ResolveParsed(raw, base_dir, parent_cond) ==
    IF raw.st # "ok" THEN raw ELSE KConfig_resolve_block(raw.blocks, base_dir, parent_cond)

\* kconfig.rs 20-28, 60-67: from_file = read_from_file on a default KConfig.
KConfig_from_file(path, base_dir) ==
    IF OpenFile(path).st # "ok" THEN OpenFile(path)
    ELSE ReadParsed(KConfig_from_str_raw(path, base_dir), base_dir)

\* source.rs 110-114: the file read with the chosen directory as its base.
SourceFile(s, dir) ==
    SourceResult(KConfig_from_file(<<dir, s.filename.path>>, dir), s.optional)

\* A variant in which an optional source absorbs the unknown variable.
Source_resolve_lenient(s, base_dir, parent_cond) ==
    IF s.filename.var # "" /\ s.filename.var \notin ContextVars
    THEN (IF s.optional THEN Ok(<<>>) ELSE Err(UnknownEnv(s.filename.var)))
    ELSE IF s.filename.inline
    THEN ResolveParsed(KConfig_from_str_raw(<<InlineDir, s.filename.path>>, base_dir),
                       base_dir, parent_cond)
    ELSE SourceFile(s, SourceDir(s, base_dir))

\* source.rs 64-132: Source::resolve_block.
Source_resolve_block(s, base_dir, parent_cond) ==
    IF s.filename.var # "" /\ s.filename.var \notin ContextVars
    THEN Err(UnknownEnv(s.filename.var))
    ELSE IF s.filename.inline
    THEN ResolveParsed(KConfig_from_str_raw(<<InlineDir, s.filename.path>>, base_dir),
                       base_dir, parent_cond)
    ELSE SourceFile(s, SourceDir(s, base_dir))

\* ifblock.rs 94-97: every item is resolved under the combined condition.
IfBlock_resolve_items(its, base_dir, sub_cond) ==
    IF its = <<>> THEN Ok(<<>>)
    ELSE Concat(Block_resolve_block(Head(its), base_dir, sub_cond),
                IfBlock_resolve_items(Tail(its), base_dir, sub_cond))

\* ifblock.rs 72-101: IfBlock::resolve_block.
IfBlock_resolve_block(b, base_dir, parent_cond) ==
    IfBlock_resolve_items(b.items, base_dir, SubCondition(parent_cond, b.condition))

\* menu.rs 116-145: Menu::resolve_block.
Menu_resolve_block(m, base_dir, parent_cond) ==
    MenuResult(m, Vec_resolve_block(m.items, base_dir, parent_cond))

\* ResolveBlock for a single block: the dispatch on the block's variant.
Block_resolve_block(b, base_dir, parent_cond) ==
    IF b.kind = "Source" THEN Source_resolve_block(b, base_dir, parent_cond)
    ELSE IF b.kind = "If" THEN IfBlock_resolve_block(b, base_dir, parent_cond)
    ELSE IF b.kind = "Menu"
    THEN MenuUnder(Menu_resolve_block(b, base_dir, parent_cond), parent_cond)
    ELSE Ok(<<AppendParentCond(b, parent_cond)>>)

\* ResolveBlock for a block list: each block in order, results concatenated.
Vec_resolve_block(bs, base_dir, parent_cond) ==
    IF bs = <<>> THEN Ok(<<>>)
    ELSE Concat(Block_resolve_block(Head(bs), base_dir, parent_cond),
                Vec_resolve_block(Tail(bs), base_dir, parent_cond))

----------------------------------------------------------------------------
(* One iteration of the loop of resolve_blocks_recursive (block.rs         *)
(* 186-214) on the list bs at index i (1-based here).                      *)

RemoveAt(bs, i) == SubSeq(bs, 1, i - 1) \o SubSeq(bs, i + 1, Len(bs))

\* block.rs 197: s.evaluate(base_dir, context) of a Source.
Source_evaluate(s, base_dir) == Source_resolve_block(s, base_dir, NoExpr)

\* block.rs 198, 207: self.extend(blocks) after self.remove(i).
Extend(rest, i, new) == rest \o new

Step(st, bs, i, e) == [st |-> st, blocks |-> bs, i |-> i, err |-> e]

\* block.rs 192-198
SourceStep(rest, i, r) ==
    IF r.st # "ok" THEN Step(r.st, rest, i, r.err)
    ELSE Step("ok", Extend(rest, i, r.blocks), i, NoErr)

\* block.rs 209-210
OtherStep(bs, i, r) ==
    Step(r.st, [bs EXCEPT ![i] = [@ EXCEPT !.items = r.blocks]],
         IF r.st = "ok" THEN i + 1 ELSE i, r.err)

RECURSIVE ResolveLoop(_, _, _)

\* block.rs 167-178: resolve_blocks_recursive of one block descends into a
\* menu's blocks and leaves every other block alone.
Block_resolve_blocks_recursive(b, base_dir) ==
    IF b.kind = "Menu" THEN ResolveLoop(b.items, 1, base_dir)
    ELSE Step("ok", b.items, 1, NoErr)

LoopStep(bs, i, base_dir) ==
    IF bs[i].kind = "Source"
    THEN SourceStep(RemoveAt(bs, i), i, Source_evaluate(bs[i], base_dir))
    ELSE IF bs[i].kind = "If"
    THEN Step("ok", Extend(RemoveAt(bs, i), i, IfBlock_evaluate(bs[i])), i, NoErr)
    ELSE OtherStep(bs, i, Block_resolve_blocks_recursive(bs[i], base_dir))

LoopNext(s, base_dir) ==
    IF s.st # "ok" THEN s ELSE ResolveLoop(s.blocks, s.i, base_dir)

\* The whole loop, from index i to the end of the list.
ResolveLoop(bs, i, base_dir) ==
    IF i > Len(bs) THEN Step("ok", bs, i, NoErr)
    ELSE LoopNext(LoopStep(bs, i, base_dir), base_dir)

----------------------------------------------------------------------------
(* The inputs the resolver is run on.                                      *)

CondA == Sym(<<"A">>)
CondB == Sym(<<"B">>)
CondC == Sym(<<"C">>)
DepD == Sym(<<"D">>)
DepE == Sym(<<"E">>)

DepLists == {<<>>, <<DepD>>, <<DepD, DepE>>}

\* The j-th name declared by statement k of the top-level list.
Nm(k, j) == <<"t", k, j>>
\* The j-th name declared in file f.
FNm(f, j) == <<f, 0, j>>

Src(p, opt, rel) == Source(FileName(p), opt, rel)

\* What statement k of the top-level list may be.
SlotOptions(k) ==
    {Config(Nm(k, 1), ds) : ds \in DepLists}
    \cup {IfBlock(CondA, <<Config(Nm(k, 1), ds)>>) : ds \in DepLists}
    \cup {IfBlock(CondA, <<IfBlock(CondB, <<Config(Nm(k, 1), <<DepD>>)>>)>>),
          IfBlock(CondA, <<IfBlock(CondB, <<IfBlock(CondC, <<MenuConfig(Nm(k, 1), <<>>)>>)>>)>>),
          IfBlock(CondA, <<Choice(Nm(k, 1), <<>>),
                           IfBlock(CondB, <<Config(Nm(k, 2), <<>>)>>),
                           Mainmenu(Nm(k, 3))>>),
          Menu(Nm(k, 1), <<>>, <<IfBlock(CondA, <<Config(Nm(k, 2), <<DepD>>)>>)>>),
          IfBlock(CondA, <<Menu(Nm(k, 1), <<DepD>>, <<Config(Nm(k, 2), <<>>)>>)>>),
          Mainmenu(Nm(k, 1))}
    \cup {Src(p, opt, FALSE) : p \in {"f", "nx"}, opt \in BOOLEAN}
    \cup {Src("f", FALSE, TRUE),
          Source([var |-> "UNSET", inline |-> FALSE, path |-> "f"], TRUE, FALSE),
          Source([var |-> "IDF_PATH", inline |-> FALSE, path |-> "f"], FALSE, FALSE),
          Source([var |-> "", inline |-> TRUE, path |-> "i"], FALSE, FALSE),
          IfBlock(CondA, <<Src("f", FALSE, FALSE)>>),
          IfBlock(CondA, <<Source([var |-> "", inline |-> TRUE, path |-> "i"], FALSE, FALSE)>>),
          Menu(Nm(k, 1), <<>>, <<Src("f", TRUE, FALSE)>>)}

RECURSIVE RawInputs(_)
RawInputs(n) ==
    IF n = 0 THEN {<<>>}
    ELSE {Append(p, b) : p \in RawInputs(n - 1), b \in SlotOptions(n)}

\* The top-level file, in TopDir, parsed with base directory BaseDir.
TopInputs ==
    {ParsedBlocks(raw, TopDir, BaseDir) : raw \in UNION {RawInputs(n) : n \in 1..MaxTop}}

RECURSIVE HasSource(_)
HasSource(bs) ==
    \E i \in 1..Len(bs) : bs[i].kind = "Source" \/ HasSource(bs[i].items)

FContents ==
    {File("missing", <<>>), File("denied", <<>>), File("bad", <<>>),
     File("ok", <<Config(FNm("f", 1), <<>>)>>),
     File("ok", <<IfBlock(CondC, <<Config(FNm("f", 1), <<DepD>>)>>), Config(FNm("f", 2), <<>>)>>),
     File("ok", <<Src("g", FALSE, FALSE)>>),
     File("ok", <<Config(FNm("f", 1), <<>>), Src("g", TRUE, FALSE)>>),
     File("ok", <<Menu(FNm("f", 1), <<>>, <<Src("g", FALSE, FALSE)>>)>>)}

GContents ==
    {File("missing", <<>>),
     File("ok", <<Config(FNm("g", 1), <<>>)>>),
     File("ok", <<IfBlock(CondC, <<Config(FNm("g", 1), <<>>)>>)>>)}

MkFs(f, g) ==
    (<<BaseDir, "f">> :> f) @@ (<<BaseDir, "g">> :> g)
    @@ (<<TopDir, "f">> :> File("ok", <<Config(FNm("tf", 1), <<>>)>>))
    @@ (<<InlineDir, "i">> :> File("ok", <<IfBlock(CondC, <<Config(FNm("i", 1), <<>>)>>)>>))

DefaultFs == MkFs(MissingFile, MissingFile)

\* File systems in which the file f next to the top-level file sources g, and
\* g exists either next to the top-level file or in the base directory.
NestedFs(tg, g) ==
    (<<TopDir, "f">> :> File("ok", <<Src("g", FALSE, FALSE)>>))
    @@ (<<TopDir, "g">> :> tg) @@ MkFs(MissingFile, g)

FsOptions ==
    UNION {{MkFs(f, g) : g \in IF HasSource(f.blocks) THEN GContents ELSE {MissingFile}} :
           f \in FContents}
    \cup {NestedFs(MissingFile, File("ok", <<Config(FNm("g", 1), <<>>)>>)),
          NestedFs(File("ok", <<Config(FNm("tg", 1), <<>>)>>), MissingFile)}

NoLast == [op |-> "none", block |-> Mainmenu(<<>>), res |-> Ok(<<>>)]

\* Values of the variables an operation does not use.
NoScan == [offset |-> 0, at |-> 0, line |-> 1, column |-> 1]
LexerIdle ==
    /\ src = <<>> /\ scan = NoScan /\ lines = <<>>
    /\ expr = NoExpr /\ text = <<>> /\ expr2 = NoExpr
ParserIdle == stack = <<>> /\ lines_offset = 0
ResolverIdle ==
    /\ api = "none" /\ files = DefaultFs /\ input = <<>> /\ blocks = <<>> /\ idx = 0
    /\ err = NoErr /\ returned = Ok(<<>>) /\ last = NoLast

lexVars == <<src, scan, lines, expr, text, expr2>>
parseVars == <<stack, lines_offset>>
resVars == <<api, files, input, blocks, idx, returned, last>>

----------------------------------------------------------------------------
(* The resolver as a state machine.                                        *)

InitResolve ==
    /\ pc = "start"
    /\ api = "none"
    /\ input \in TopInputs
    /\ files \in IF HasSource(input) THEN FsOptions ELSE {DefaultFs}
    /\ blocks = <<>>
    /\ idx = 0
    /\ err = NoErr
    /\ returned = Ok(<<>>)
    /\ last = NoLast
    /\ LexerIdle
    /\ ParserIdle

Outcome(st) == IF st = "ok" THEN "done" ELSE IF st = "panic" THEN "panicked" ELSE "failed"

ReadResult(r) ==
    /\ pc' = Outcome(r.st)
    /\ err' = r.err
    /\ blocks' = IF r.st = "ok" THEN r.blocks ELSE input

\* KConfig::from_str / read_from_str (kconfig.rs 33-40, 72-79) on a text
\* that parses to input.
ReadFromStr ==
    /\ pc = "start"
    /\ ReadResult(KConfig_read_from_str(input, BaseDir))
    /\ api' = "from_str"
    /\ returned' = KConfig_resolve_block(input, BaseDir, NoExpr)
    /\ UNCHANGED <<files, input, idx, last>>
    /\ UNCHANGED lexVars
    /\ UNCHANGED parseVars

\* resolve_blocks_recursive is called on the parsed list (block.rs 186).
ResolveBegin ==
    /\ pc = "start"
    /\ pc' = "loop"
    /\ api' = "recursive"
    /\ blocks' = input
    /\ idx' = 1
    /\ UNCHANGED <<files, input, err, returned, last>>
    /\ UNCHANGED lexVars
    /\ UNCHANGED parseVars

ApplyStep(s) ==
    /\ blocks' = s.blocks
    /\ idx' = s.i
    /\ err' = s.err
    /\ pc' = IF s.st = "ok" THEN "loop" ELSE Outcome(s.st)

\* block.rs 190-198
ResolveSource ==
    /\ pc = "loop" /\ idx <= Len(blocks)
    /\ blocks[idx].kind = "Source"
    /\ ApplyStep(LoopStep(blocks, idx, BaseDir))
    /\ last' = [op |-> "source", block |-> blocks[idx],
                res |-> Source_evaluate(blocks[idx], BaseDir)]
    /\ UNCHANGED <<api, files, input, returned>>
    /\ UNCHANGED lexVars
    /\ UNCHANGED parseVars

\* block.rs 199-207
ResolveIf ==
    /\ pc = "loop" /\ idx <= Len(blocks)
    /\ blocks[idx].kind = "If"
    /\ ApplyStep(LoopStep(blocks, idx, BaseDir))
    /\ last' = [op |-> "if", block |-> blocks[idx], res |-> Ok(IfBlock_evaluate(blocks[idx]))]
    /\ UNCHANGED <<api, files, input, returned>>
    /\ UNCHANGED lexVars
    /\ UNCHANGED parseVars

\* block.rs 208-211
ResolveOther ==
    /\ pc = "loop" /\ idx <= Len(blocks)
    /\ blocks[idx].kind \notin {"Source", "If"}
    /\ ApplyStep(LoopStep(blocks, idx, BaseDir))
    /\ UNCHANGED <<api, files, input, returned, last>>
    /\ UNCHANGED lexVars
    /\ UNCHANGED parseVars

\* block.rs 188, 214: the loop ends, Ok(()) is returned.
ResolveReturn ==
    /\ pc = "loop" /\ idx > Len(blocks)
    /\ pc' = "done"
    /\ UNCHANGED <<api, files, input, blocks, idx, err, returned, last>>
    /\ UNCHANGED lexVars
    /\ UNCHANGED parseVars

NextResolve ==
    \/ ReadFromStr
    \/ ResolveBegin
    \/ ResolveSource
    \/ ResolveIf
    \/ ResolveOther
    \/ ResolveReturn

SpecResolve == InitResolve /\ [][NextResolve]_vars

----------------------------------------------------------------------------
(* Properties of the resolver.                                             *)

RECURSIVE NoIfOrSource(_)
NoIfOrSource(bs) ==
    \A i \in 1..Len(bs) :
        bs[i].kind \notin {"If", "Source"} /\ NoIfOrSource(bs[i].items)

\* C1: after a successful parse-and-resolve the tree holds no If and no
\* Source block, neither at the top level nor in any menu.
C1_NoIfOrSourceLeft == pc = "done" => NoIfOrSource(blocks)

\* C2: the blocks that replace a source statement or an if block take the
\* position the statement had: everything before it stays before them,
\* everything after it stays after them.
C2_SplicedInPlace ==
    [][(ResolveSource \/ ResolveIf) /\ pc' = "loop"
         => blocks' = SubSeq(blocks, 1, idx - 1) \o last'.res.blocks
                        \o SubSeq(blocks, idx + 1, Len(blocks))]_vars

\* The left-nested conjunction of a chain of conditions, outermost first.
RECURSIVE FoldAnd(_)
FoldAnd(chain) ==
    IF Len(chain) = 1 THEN chain[1]
    ELSE AndE(FoldAnd(SubSeq(chain, 1, Len(chain) - 1)), chain[Len(chain)])

\* The config entries written inside an if block, each with the chain of
\* if conditions around it, outermost first.
RECURSIVE Enclosed(_, _)
Enclosed(its, chain) ==
    UNION {IF its[i].kind = "If"
           THEN Enclosed(its[i].items, Append(chain, its[i].condition))
           ELSE IF its[i].kind \in {"Config", "MenuConfig"}
           THEN {[name |-> its[i].name, deps |-> its[i].depends_on, chain |-> chain]}
           ELSE {} : i \in 1..Len(its)}

\* The entry e came out of resolution with its own dependencies followed by
\* the single entry c.
ResolvedWith(out, e, c) ==
    \E j \in 1..Len(out) :
        out[j].name = e.name /\ out[j].depends_on = Append(e.deps, c)

\* The if blocks of the top-level list with what resolution made of them.
IfResults ==
    (IF last.op = "if" THEN {[block |-> last.block, out |-> last.res.blocks]} ELSE {})
    \cup (IF api = "from_str" /\ returned.st = "ok"
          THEN {[block |-> input[k], out |-> returned.blocks] :
                  k \in {k \in 1..Len(input) : input[k].kind = "If"}}
          ELSE {})

\* C3: a config written directly inside `if COND` with dependencies
\* [D1..Dn] has the dependency list [D1..Dn, COND] after resolution.
C3_ConditionAppended ==
    \A r \in IfResults :
        \A e \in Enclosed(r.block.items, <<r.block.condition>>) :
            Len(e.chain) = 1 => ResolvedWith(r.out, e, r.block.condition)

C3_Witness ==
    /\ last.op = "if"
    /\ \E e \in Enclosed(last.block.items, <<last.block.condition>>) :
          /\ Len(e.chain) = 1 /\ Len(e.deps) = 2
          /\ ResolvedWith(last.res.blocks, e, last.block.condition)

\* C4: a config inside nested if blocks receives exactly one additional
\* dependency entry, the And of the enclosing conditions from outermost to
\* innermost.
C4_NestedConditionsAnded ==
    \A r \in IfResults :
        \A e \in Enclosed(r.block.items, <<r.block.condition>>) :
            Len(e.chain) >= 2 => ResolvedWith(r.out, e, FoldAnd(e.chain))

C4_Witness ==
    /\ last.op = "if"
    /\ \E e \in Enclosed(last.block.items, <<last.block.condition>>) :
          /\ Len(e.chain) = 3
          /\ ResolvedWith(last.res.blocks, e, AndE(AndE(CondA, CondB), CondC))

\* The source statements resolved against the top-level base directory,
\* each with its result.
SourceResults ==
    (IF last.op = "source" THEN {[block |-> last.block, res |-> last.res]} ELSE {})
    \cup (IF api = "from_str" /\ Len(input) = 1 /\ input[1].kind = "Source"
          THEN {[block |-> input[1], res |-> returned]} ELSE {})

\* The source statement names a plain file path and that file does not exist.
FileMissing(s) ==
    /\ s.filename.var = "" /\ ~s.filename.inline
    /\ FileAt(<<IF s.relative THEN s.base_dir ELSE BaseDir, s.filename.path>>).state = "missing"

\* C5: an optional source of a missing file gives zero blocks and no
\* error; a non-optional source of a missing file fails with Io NotFound.
C5_MissingFile ==
    \A r \in SourceResults :
        FileMissing(r.block)
          => r.res = IF r.block.optional THEN Ok(<<>>) ELSE Err(IoErr("NotFound"))

C5_Witness ==
    /\ last.op = "source" /\ FileMissing(last.block)
    /\ last.block.optional /\ last.res = Ok(<<>>) /\ pc = "loop"

\* The list holds, at the top level or inside a menu, a non-optional source
\* of a file that does not exist.
RECURSIVE HasBrokenSource(_)
HasBrokenSource(bs) ==
    \E i \in 1..Len(bs) :
        \/ bs[i].kind = "Source" /\ ~bs[i].optional /\ FileMissing(bs[i])
        \/ bs[i].kind = "Menu" /\ HasBrokenSource(bs[i].items)

\* An optional source statement whose file exists and holds a non-optional
\* source of a missing file.
OptionalOfBroken(s) ==
    /\ s.kind = "Source" /\ s.optional /\ s.filename.var = "" /\ ~s.filename.inline
    /\ FileAt(<<BaseDir, s.filename.path>>).state = "ok"
    /\ HasBrokenSource(ParsedBlocks(FileAt(<<BaseDir, s.filename.path>>).blocks,
                                    BaseDir, BaseDir))

\* C6: when an optional source's file exists, an error raised inside it
\* (here the NotFound of a nested non-optional source) fails the whole
\* top-level resolve.
C6_NestedErrorIsFatal ==
    (\E k \in 1..Len(input) : OptionalOfBroken(input[k])) => pc # "done"

\* The file name of the source statement names a variable the context does
\* not define.
UnsetVar(s) == s.filename.var # "" /\ s.filename.var \notin ContextVars

\* C19: a source statement whose file name references a variable the context
\* does not define fails with UnknownEnv(name), optional or not, whatever the
\* file system holds.
C19_UnknownEnvIsFatal ==
    \A r \in SourceResults :
        UnsetVar(r.block) => r.res = Err(UnknownEnv(r.block.filename.var))

C19_Witness ==
    /\ last.op = "source" /\ UnsetVar(last.block) /\ last.block.optional
    /\ FileAt(<<BaseDir, last.block.filename.path>>).state = "ok"
    /\ last.res = Err(UnknownEnv("UNSET")) /\ pc = "failed"

\* The source statements written inside the if blocks of a list, each with
\* the chain of if conditions around it, outermost first.
RECURSIVE IfSources(_, _)
IfSources(its, chain) ==
    UNION {IF its[i].kind = "If"
           THEN IfSources(its[i].items, Append(chain, its[i].condition))
           ELSE IF its[i].kind = "Source" /\ chain # <<>>
           THEN {[source |-> its[i], chain |-> chain]}
           ELSE {} : i \in 1..Len(its)}

\* The blocks written in the text a source statement of the top-level file
\* names: the inline fragment, or the file in the statement's directory.
Sourced(s) ==
    IF UnsetVar(s) THEN <<>>
    ELSE IF s.filename.inline THEN FileAt(<<InlineDir, s.filename.path>>).blocks
    ELSE FileAt(<<IF s.relative THEN s.base_dir ELSE BaseDir, s.filename.path>>).blocks

\* The block lists resolution has produced: the list the worklist loop
\* finished on, and the list resolve_block returned to read_from_str.
Resolved ==
    (IF api = "recursive" /\ pc = "done" THEN {blocks} ELSE {})
    \cup (IF api = "from_str" /\ returned.st = "ok" THEN {returned.blocks} ELSE {})

\* C21: every config contributed by a source statement inside `if COND`
\* (a file or an inline fragment) has, after resolution, its own
\* dependencies followed by COND ANDed with the other if conditions around
\* it, as a config written in place of the source statement would.
C21_SourcedUnderIf ==
    \A out \in Resolved :
        \A s \in IfSources(input, <<>>) :
            \A e \in Enclosed(Sourced(s.source), s.chain) :
                ResolvedWith(out, e, FoldAnd(e.chain))

\* The blocks an if block contains that are not if blocks themselves, at
\* any if-nesting depth, each with the chain of conditions around it.
RECURSIVE Contained(_, _)
Contained(its, chain) ==
    UNION {IF its[i].kind = "If"
           THEN Contained(its[i].items, Append(chain, its[i].condition))
           ELSE {[item |-> its[i], chain |-> chain]} : i \in 1..Len(its)}

\* The block as parsed, with the one entry c added to its dependencies when
\* it is of a kind that has dependencies.
WithOneMore(b, c) ==
    IF b.kind \in {"Config", "MenuConfig", "Choice", "Menu"}
    THEN [b EXCEPT !.depends_on = Append(@, c)]
    ELSE b

\* C22: flattening an if block gives each contained Config, MenuConfig,
\* Choice and Menu exactly one more depends_on entry, the effective
\* condition, and leaves everything else as parsed: a Mainmenu comes out
\* unchanged, and so do the name, the earlier dependencies and the contained
\* blocks (the blocks inside a Menu) of every block.
C22_OnlyDependsOnGrows ==
    \A r \in IfResults :
        \A c \in Contained(r.block.items, <<r.block.condition>>) :
            c.item.kind # "Source"
              => \E j \in 1..Len(r.out) : r.out[j] = WithOneMore(c.item, FoldAnd(c.chain))

\* The non-relative, non-optional source statements of plain files written
\* at the top level of the file a relative source statement s names.
NestedSources(s) ==
    {b \in {FileAt(<<s.base_dir, s.filename.path>>).blocks[i] :
              i \in 1..Len(FileAt(<<s.base_dir, s.filename.path>>).blocks)} :
        b.kind = "Source" /\ ~b.relative /\ ~b.optional
          /\ b.filename.var = "" /\ ~b.filename.inline}

\* C23: a source statement that is not relative is resolved against the
\* global base directory also inside a file included through rsource: the
\* include succeeds when the named file exists in the base directory and
\* fails with NotFound when it exists only next to the including file.
C23_NonRelativeUsesBaseDir ==
    \A r \in SourceResults :
        (r.block.relative /\ ~UnsetVar(r.block) /\ ~r.block.filename.inline)
          => \A n \in NestedSources(r.block) :
                /\ FileAt(<<BaseDir, n.filename.path>>).state = "missing"
                      => r.res = Err(IoErr("NotFound"))
                /\ (FileAt(<<BaseDir, n.filename.path>>).state = "ok"
                     /\ ~HasSource(FileAt(<<BaseDir, n.filename.path>>).blocks))
                      => r.res.st = "ok"

----------------------------------------------------------------------------
(* Characters.  A text is a sequence of one-character strings.             *)

Lower == {"a", "b", "c", "d", "e", "f", "g", "h", "i", "j", "k", "l", "m",
          "n", "o", "p", "q", "r", "s", "t", "u", "v", "w", "x", "y", "z"}
Upper == {"A", "B", "C", "D", "E", "F", "G", "H", "I", "J", "K", "L", "M",
          "N", "O", "P", "Q", "R", "S", "T", "U", "V", "W", "X", "Y", "Z"}
Digit == {"0", "1", "2", "3", "4", "5", "6", "7", "8", "9"}
OctDigit == {"0", "1", "2", "3", "4", "5", "6", "7"}
HexDigit == Digit \cup {"a", "b", "c", "d", "e", "f", "A", "B", "C", "D", "E", "F"}

\* char::is_alphabetic, is_alphanumeric, is_whitespace on the characters used.
IsAlphabetic(c) == c \in Lower \cup Upper
IsAlphanumeric(c) == c \in Lower \cup Upper \cup Digit
IsWhitespace(c) == c \in {" ", "\t", "\n", "\r"}

\* What peek() gives at the end of the text (Option::None).
EOF == "<EOF>"

----------------------------------------------------------------------------
(* The character scanner (parser/streams.rs, PeekableChars).  A cursor sc  *)
(* is the byte offset into the text t and the location of the next         *)
(* character.  The text is a sequence of characters, so the cursor also    *)
(* counts the characters in front of the offset (at): the slice            *)
(* &base[offset..] starts with the character t[at + 1].                    *)

\* char::len_utf8 on the characters used; the characters of more than one
\* byte are written by name.
len_utf8(c) == CASE c = "<e-acute>" -> 2 [] c = "<euro>" -> 3 [] OTHER -> 1

\* str::len: the length of a text in bytes.
RECURSIVE Bytes(_, _)
Bytes(t, n) == IF n = 0 THEN 0 ELSE len_utf8(t[n]) + Bytes(t, n - 1)
ByteLen(t) == Bytes(t, Len(t))

\* The index of the first character, from the i-th on, that starts bytes or
\* more behind the start of the i-th.
RECURSIVE Skipped(_, _, _)
Skipped(t, i, bytes) ==
    IF bytes <= 0 \/ i > Len(t) THEN i ELSE Skipped(t, i + 1, bytes - len_utf8(t[i]))

\* &self.base[offset..]: the characters from a byte offset on.
Rest(t, offset) == SubSeq(t, Skipped(t, 1, offset), Len(t))

\* The byte offset is the start of a character or the end of the text.
OnCharBoundary(t, offset) == ByteLen(t) - ByteLen(Rest(t, offset)) = offset

PeekAt(t, sc, n) == IF sc.at + n < Len(t) THEN t[sc.at + n + 1] ELSE EOF
Peek(t, sc) == PeekAt(t, sc, 0)

\* streams.rs 56-60: offset >= base.len(), no character is left.
IsEmpty(t, sc) == sc.at >= Len(t)

\* streams.rs 178-191: the cursor after next() returned c.
Moved(sc, c) ==
    IF c = "\n"
    THEN [offset |-> sc.offset + len_utf8(c), at |-> sc.at + 1,
          line |-> sc.line + 1, column |-> 1]
    ELSE [offset |-> sc.offset + len_utf8(c), at |-> sc.at + 1,
          line |-> sc.line, column |-> sc.column + 1]

\* streams.rs 175-194: Iterator::next.
Next(t, sc) == IF IsEmpty(t, sc) THEN sc ELSE Moved(sc, Peek(t, sc))
Next2(t, sc) == Next(t, Next(t, sc))

\* str::starts_with through Deref (streams.rs 166-172).
StartsWith(t, sc, pat) ==
    /\ sc.at + Len(pat) <= Len(t)
    /\ SubSeq(t, sc.at + 1, sc.at + Len(pat)) = pat

\* The text between two cursors.
Between(t, a, b) == SubSeq(t, a.at + 1, b.at)

RECURSIVE NextN(_, _, _)
NextN(t, sc, n) == IF n = 0 THEN sc ELSE NextN(t, Next(t, sc), n - 1)

\* streams.rs 117-133: the loop of advance.  It leaves as soon as the offset
\* reaches the target, before the location is moved over the last character.
RECURSIVE AdvanceLoop(_, _, _)
AdvanceLoop(t, sc, target) ==
    IF IsEmpty(t, sc) THEN sc
    ELSE IF sc.offset + len_utf8(Peek(t, sc)) >= target THEN [sc EXCEPT !.offset = target, !.at = @ + 1]
    ELSE AdvanceLoop(t, Moved(sc, Peek(t, sc)), target)

\* streams.rs 103-136: advance(n), n a number of bytes.
Advance(t, sc, n) == IF n = 0 THEN sc ELSE AdvanceLoop(t, sc, sc.offset + n)

\* streams.rs 112-114, 123-125: advance(n) panics past the end of the text
\* and inside a character.
AdvancePanics(t, sc, n) ==
    n # 0 /\ (sc.offset + n > ByteLen(t) \/ ~OnCharBoundary(t, sc.offset + n))

\* streams.rs 139-158: read_until(predicate), the predicate being a set of
\* characters; the cursor stops in front of the first match.
RECURSIVE ReadUntil(_, _, _)
ReadUntil(t, sc, stop) ==
    IF IsEmpty(t, sc) \/ Peek(t, sc) \in stop THEN sc
    ELSE ReadUntil(t, Next(t, sc), stop)

\* The cursor after the longest run of characters of the set.
RECURSIVE SkipWhile(_, _, _)
SkipWhile(t, sc, set) ==
    IF Peek(t, sc) \in set THEN SkipWhile(t, Next(t, sc), set) ELSE sc

----------------------------------------------------------------------------
(* Tokens (parser/token.rs).                                               *)

\* LocToken: the token, its payload (text or number) and its location.
Tok(token, str, num, sc) ==
    [token |-> token, str |-> str, num |-> num, line |-> sc.line, column |-> sc.column]

\* token.rs 185-229
KEYWORDS ==
    (<<"-", "-", "-", "h", "e", "l", "p", "-", "-", "-">> :> "Help")
    @@ (<<"a", "l", "l", "n", "o", "c", "o", "n", "f", "i", "g", "_", "y">> :> "AllNoConfigY")
    @@ (<<"b", "o", "o", "l">> :> "Bool")
    @@ (<<"b", "o", "o", "l", "e", "a", "n">> :> "Bool")
    @@ (<<"c", "h", "o", "i", "c", "e">> :> "Choice")
    @@ (<<"c", "o", "m", "m", "e", "n", "t">> :> "Comment")
    @@ (<<"c", "o", "n", "f", "i", "g">> :> "Config")
    @@ (<<"d", "e", "f", "_", "b", "o", "o", "l">> :> "DefBool")
    @@ (<<"d", "e", "f", "_", "h", "e", "x">> :> "DefHex")
    @@ (<<"d", "e", "f", "_", "i", "n", "t">> :> "DefInt")
    @@ (<<"d", "e", "f", "_", "s", "t", "r", "i", "n", "g">> :> "DefString")
    @@ (<<"d", "e", "f", "_", "t", "r", "i", "s", "t", "a", "t", "e">> :> "DefTristate")
    @@ (<<"d", "e", "f", "a", "u", "l", "t">> :> "Default")
    @@ (<<"d", "e", "f", "c", "o", "n", "f", "i", "g", "_", "l", "i", "s", "t">> :> "DefConfigList")
    @@ (<<"d", "e", "p", "e", "n", "d", "s">> :> "Depends")
    @@ (<<"e", "n", "d", "c", "h", "o", "i", "c", "e">> :> "EndChoice")
    @@ (<<"e", "n", "d", "i", "f">> :> "EndIf")
    @@ (<<"e", "n", "d", "m", "e", "n", "u">> :> "EndMenu")
    @@ (<<"e", "n", "v">> :> "Env")
    @@ (<<"g", "r", "s", "o", "u", "r", "c", "e">> :> "ORSource")
    @@ (<<"g", "s", "o", "u", "r", "c", "e">> :> "OSource")
    @@ (<<"h", "e", "l", "p">> :> "Help")
    @@ (<<"h", "e", "x">> :> "Hex")
    @@ (<<"i", "f">> :> "If")
    @@ (<<"i", "m", "p", "l", "y">> :> "Imply")
    @@ (<<"i", "n", "t">> :> "Int")
    @@ (<<"m", "a", "i", "n", "m", "e", "n", "u">> :> "Mainmenu")
    @@ (<<"m", "e", "n", "u">> :> "Menu")
    @@ (<<"m", "e", "n", "u", "c", "o", "n", "f", "i", "g">> :> "MenuConfig")
    @@ (<<"m", "o", "d", "u", "l", "e", "s">> :> "Modules")
    @@ (<<"o", "n">> :> "On")
    @@ (<<"o", "p", "t", "i", "o", "n">> :> "Option")
    @@ (<<"o", "p", "t", "i", "o", "n", "a", "l">> :> "Optional")
    @@ (<<"o", "r", "s", "o", "u", "r", "c", "e">> :> "ORSource")
    @@ (<<"o", "s", "o", "u", "r", "c", "e">> :> "OSource")
    @@ (<<"p", "r", "o", "m", "p", "t">> :> "Prompt")
    @@ (<<"r", "a", "n", "g", "e">> :> "Range")
    @@ (<<"r", "s", "o", "u", "r", "c", "e">> :> "RSource")
    @@ (<<"s", "e", "l", "e", "c", "t">> :> "Select")
    @@ (<<"s", "o", "u", "r", "c", "e">> :> "Source")
    @@ (<<"s", "t", "r", "i", "n", "g">> :> "String")
    @@ (<<"t", "r", "i", "s", "t", "a", "t", "e">> :> "Tristate")
    @@ (<<"v", "i", "s", "i", "b", "l", "e">> :> "Visible")

Keyword(ident) == IF ident \in DOMAIN KEYWORDS THEN KEYWORDS[ident] ELSE "Symbol"

\* token.rs 391-404: the cursor after the identifier that starts at sc.
IdentEnd(t, sc) == SkipWhile(t, Next(t, sc), Lower \cup Upper \cup Digit \cup {"_"})

KeywordOrSymbol(ident, start) ==
    Tok(Keyword(ident), IF Keyword(ident) = "Symbol" THEN ident ELSE <<>>, 0, start)

\* token.rs 380-412: parse_keyword_or_symbol, called on a letter or `_`.
parse_keyword_or_symbol(t, sc) == KeywordOrSymbol(Between(t, sc, IdentEnd(t, sc)), sc)

----------------------------------------------------------------------------
(* Whitespace, comments and literals.                                      *)

Continuation == <<"\\", "\n">>

\* whitespace.rs 14-20: hws0, zero or more spaces, tabs or escaped newlines;
\* the cursor after them.
RECURSIVE parse_hws0(_, _)
parse_hws0(t, sc) ==
    IF Peek(t, sc) \in {" ", "\t"} THEN parse_hws0(t, Next(t, sc))
    ELSE IF StartsWith(t, sc, Continuation) THEN parse_hws0(t, Next2(t, sc))
    ELSE sc

\* comment.rs 60-74: the characters that may follow a backslash in a comment.
CommentEscapes == {"a", "b", "e", "f", "n", "r", "t", "v", "\\", "'", "/", "\"", "\n"}

\* comment.rs 59: \u{ hex digits }
UnicodeEscapeEnd(t, sc) == SkipWhile(t, NextN(t, sc, 3), HexDigit)
IsUnicodeEscape(t, sc) ==
    StartsWith(t, sc, <<"\\", "u", "{">>) /\ Peek(t, UnicodeEscapeEnd(t, sc)) = "}"

\* comment.rs 23-77: the interior of a comment, a run of fragments: text
\* without backslash and newline, or an escape.
RECURSIVE parse_comment_interior(_, _)
parse_comment_interior(t, sc) ==
    IF IsEmpty(t, sc) THEN sc
    ELSE IF Peek(t, sc) \notin {"\\", "\n"} THEN parse_comment_interior(t, Next(t, sc))
    ELSE IF Peek(t, sc) = "\n" THEN sc
    ELSE IF IsUnicodeEscape(t, sc)
    THEN parse_comment_interior(t, Next(t, UnicodeEscapeEnd(t, sc)))
    ELSE IF PeekAt(t, sc, 1) \in CommentEscapes THEN parse_comment_interior(t, Next2(t, sc))
    ELSE sc

\* comment.rs 15-20: parse_comment, called on `#`.
parse_comment(t, sc) == parse_comment_interior(t, Next(t, sc))

\* Results of the literal parsers: the cursor after the literal, its value.
LitOk(sc, str, num) == [st |-> "ok", sc |-> sc, str |-> str, num |-> num, err |-> NoErr]
LitErr(sc, kind, what) ==
    [st |-> "err", sc |-> sc, str |-> <<>>, num |-> 0,
     err |-> [kind |-> kind, io |-> "", name |-> what]]

DigitVal(c) ==
    CASE c \in Digit -> CHOOSE n \in 0..9 : <<"0", "1", "2", "3", "4", "5", "6", "7", "8", "9">>[n + 1] = c
      [] c \in {"a", "A"} -> 10
      [] c \in {"b", "B"} -> 11
      [] c \in {"c", "C"} -> 12
      [] c \in {"d", "D"} -> 13
      [] c \in {"e", "E"} -> 14
      [] c \in {"f", "F"} -> 15

\* from_str_radix on a run of digits.
RECURSIVE from_str_radix(_, _)
from_str_radix(digits, radix) ==
    IF digits = <<>> THEN 0
    ELSE from_str_radix(SubSeq(digits, 1, Len(digits) - 1), radix) * radix
           + DigitVal(digits[Len(digits)])

HasSign(t, sc) == Peek(t, sc) \in {"+", "-"}
AfterSign(t, sc) == IF HasSign(t, sc) THEN Next(t, sc) ELSE sc

DecValue(t, sc, digits) ==
    IF digits = <<>> THEN LitErr(sc, "InvalidInteger", "")
    ELSE LitOk(SkipWhile(t, AfterSign(t, sc), Digit), <<>>,
               IF Peek(t, sc) = "-" THEN 0 - from_str_radix(digits, 10)
               ELSE from_str_radix(digits, 10))

\* integer.rs 23-53: parse_dec_literal.
parse_dec_literal(t, sc) ==
    DecValue(t, sc, Between(t, AfterSign(t, sc), SkipWhile(t, AfterSign(t, sc), Digit)))

HexValue(t, sc, digits) ==
    IF digits = <<>> THEN LitErr(sc, "InvalidInteger", "")
    ELSE LitOk(SkipWhile(t, Next2(t, sc), HexDigit), <<>>, from_str_radix(digits, 16))

\* integer.rs 55-94: parse_hex_literal, called on 0x or 0X.
parse_hex_literal(t, sc) ==
    HexValue(t, sc, Between(t, Next2(t, sc), SkipWhile(t, Next2(t, sc), HexDigit)))

\* integer.rs 96-123: parse_dec_oct_literal, called on 0.
parse_dec_oct_literal(t, sc) ==
    LitOk(SkipWhile(t, sc, OctDigit), <<>>,
          from_str_radix(Between(t, sc, SkipWhile(t, sc, OctDigit)), 8))

\* The integer literal parser parse_line calls on `+`, `-` or a digit: the
\* value of a decimal, hex or octal literal (dispatch of integer.rs 3-21).
parse_integer_literal(t, sc) ==
    IF HasSign(t, sc) THEN parse_dec_literal(t, sc)
    ELSE IF StartsWith(t, sc, <<"0", "x">>) \/ StartsWith(t, sc, <<"0", "X">>)
    THEN parse_hex_literal(t, sc)
    ELSE IF Peek(t, sc) = "0" THEN parse_dec_oct_literal(t, sc)
    ELSE parse_dec_literal(t, sc)

\* string_literal.rs 121-141: the character an escape letter stands for.
\* Control characters without a TLA+ spelling are written by name.
EscapedChar ==
    [c \in {"a", "b", "e", "f", "n", "r", "t", "v", "\\", "'", "/", "\""} |->
        CASE c = "a" -> "<BEL>" [] c = "b" -> "<BS>" [] c = "e" -> "<ESC>"
          [] c = "f" -> "<FF>" [] c = "n" -> "\n" [] c = "r" -> "\r"
          [] c = "t" -> "\t" [] c = "v" -> "<VT>" [] OTHER -> c]

\* char::from_u32 on the code points the model's texts can spell.
CodeChar(n) ==
    CASE n = 10 -> "\n" [] n = 32 -> " " [] n = 34 -> "\"" [] n = 65 -> "A"
      [] n = 66 -> "B" [] n = 97 -> "a" [] n = 98 -> "b" [] OTHER -> "<U+>"

\* string_literal.rs 167: u32::from_str_radix on the digits between the braces.
CodePoint(t, sc) ==
    from_str_radix(Between(t, NextN(t, sc, 3), UnicodeEscapeEnd(t, sc)), 16)

\* string_literal.rs 157-173: \u{ 1 to 6 hex digits } naming a code point
\* char::from_u32 accepts (no surrogate, at most 0x10FFFF).
IsStringUnicode(t, sc) ==
    /\ IsUnicodeEscape(t, sc)
    /\ UnicodeEscapeEnd(t, sc).offset - sc.offset \in 4..9
    /\ CodePoint(t, sc) \notin 55296..57343
    /\ CodePoint(t, sc) <= 1114111
UnicodeChar(t, sc) == CodeChar(CodePoint(t, sc))

\* string_literal.rs 44-76, 94-153: the fragments of a string literal up to
\* the closing quote q: literal text, escaped characters (parse_unicode and
\* the twelve letters of parse_escaped_char), escaped whitespace.
RECURSIVE string_fragments(_, _, _, _, _)
string_fragments(t, start, sc, q, acc) ==
    IF IsEmpty(t, sc) THEN LitErr(start, "UnexpectedEof", "StringLiteral")
    ELSE IF Peek(t, sc) = q THEN LitOk(Next(t, sc), acc, 0)
    ELSE IF Peek(t, sc) # "\\"
    THEN string_fragments(t, start, Next(t, sc), q, Append(acc, Peek(t, sc)))
    ELSE IF IsStringUnicode(t, sc)
    THEN string_fragments(t, start, Next(t, UnicodeEscapeEnd(t, sc)), q,
                          Append(acc, UnicodeChar(t, sc)))
    ELSE IF PeekAt(t, sc, 1) \in DOMAIN EscapedChar
    THEN string_fragments(t, start, Next2(t, sc), q, Append(acc, EscapedChar[PeekAt(t, sc, 1)]))
    ELSE IF IsWhitespace(PeekAt(t, sc, 1))
    THEN string_fragments(t, start, SkipWhile(t, Next(t, sc), {" ", "\t", "\n", "\r"}), q, acc)
    ELSE LitErr(start, "Syntax", "StringLiteral")

\* The string literal parser parse_line calls on a quote character q.
parse_string_literal(t, sc, q) == string_fragments(t, sc, Next(t, sc), q, <<>>)

----------------------------------------------------------------------------
(* The lexer (parser/streams.rs): parse_line, read_help_block,             *)
(* parse_stream.                                                           *)

\* Result of parse_line: the tokens of the line and the cursor after it.
LineOk(toks, sc) == [st |-> "ok", tokens |-> toks, sc |-> sc, err |-> NoErr]
LineErr(e, sc) == [st |-> "err", tokens |-> <<>>, sc |-> sc, err |-> e]

SyntaxErr(c) == [kind |-> "Syntax", io |-> "", name |-> c]
UnexpectedErr(c, expected) == [kind |-> "Unexpected", io |-> c, name |-> expected]

\* streams.rs 680-693: the lines after the first one.  A line that starts
\* with the indent is added without it, an empty line adds a newline, any
\* other line ends the block.
RECURSIVE help_lines(_, _, _, _)
HelpLine(t, from, to, indent, help) ==
    help_lines(t, to, indent, help \o Between(t, from, to))

help_lines(t, sc, indent, help) ==
    IF IsEmpty(t, sc) THEN LitOk(sc, help, 0)
    ELSE IF StartsWith(t, sc, indent)
    THEN HelpLine(t, Advance(t, sc, Len(indent)),
                  ReadUntil(t, Advance(t, sc, Len(indent)), {"\n"}), indent, help)
    ELSE IF Peek(t, sc) = "\n" THEN help_lines(t, Next(t, sc), indent, Append(help, "\n"))
    ELSE LitOk(sc, help, 0)

\* streams.rs 669-678: the indent of the line that follows `help`, and the
\* text of that line.
HelpFirstLine(t, sc, ind) ==
    IF ind.offset = sc.offset
    THEN LitErr(ind, "Unexpected", "Whitespace")
    ELSE HelpLine(t, ind, ReadUntil(t, ind, {"\n"}), Between(t, sc, ind), <<>>)

\* streams.rs 666-696: read_help_block.
read_help_block(t, sc) == HelpFirstLine(t, sc, parse_hws0(t, sc))

RECURSIVE parse_line_loop(_, _, _)

\* streams.rs 543-547: the help text becomes a string literal token located
\* where the block starts.
HelpTokens(toks, start, r) ==
    IF r.st # "ok" THEN LineErr(r.err, r.sc)
    ELSE LineOk(Append(toks, Tok("StrLit", r.str, 0, start)), r.sc)

\* A variant in which a blank or comment-only line is returned as a line
\* without tokens.
EndOfLineKeepsEmpty(t, sc, toks) ==
    IF Len(toks) = 1 /\ toks[1].token = "Help"
    THEN HelpTokens(toks, sc, read_help_block(t, sc))
    ELSE LineOk(toks, sc)

\* streams.rs 533-553: a comment or a newline ends the line.
EndOfLine(t, sc, toks) ==
    IF toks = <<>> THEN parse_line_loop(t, sc, <<>>)
    ELSE IF Len(toks) = 1 /\ toks[1].token = "Help"
    THEN HelpTokens(toks, sc, read_help_block(t, sc))
    ELSE LineOk(toks, sc)

\* streams.rs 556-566: a literal is pushed, or its error returned.
Literal(t, toks, token, start, r) ==
    IF r.st # "ok" THEN LineErr(r.err, r.sc)
    ELSE parse_line_loop(t, r.sc, Append(toks, Tok(token, r.str, r.num, start)))

\* streams.rs 598-644: an operator that may be followed by `=`.
WithEq(t, sc, toks, with, without) ==
    IF PeekAt(t, sc, 1) = "="
    THEN parse_line_loop(t, Next2(t, sc), Append(toks, Tok(with, <<>>, 0, sc)))
    ELSE parse_line_loop(t, Next(t, sc), Append(toks, Tok(without, <<>>, 0, sc)))

\* streams.rs 526-657: the inner loop of parse_line, one character class
\* per arm, in the order of the match.
parse_line_loop(t, sc, toks) ==
    IF IsEmpty(t, sc) THEN LineOk(toks, sc)
    ELSE IF Peek(t, sc) = "#" THEN EndOfLine(t, parse_comment(t, sc), toks)
    ELSE IF Peek(t, sc) = "\n" THEN EndOfLine(t, Next(t, sc), toks)
    ELSE IF Peek(t, sc) \in {"\"", "'"}
    THEN Literal(t, toks, "StrLit", sc, parse_string_literal(t, sc, Peek(t, sc)))
    ELSE IF Peek(t, sc) \in {"+", "-"} \cup Digit
    THEN Literal(t, toks, "IntLit", sc, parse_integer_literal(t, sc))
    ELSE IF IsWhitespace(Peek(t, sc)) THEN parse_line_loop(t, Next(t, sc), toks)
    ELSE IF IsAlphabetic(Peek(t, sc)) \/ Peek(t, sc) = "_"
    THEN parse_line_loop(t, IdentEnd(t, sc), Append(toks, parse_keyword_or_symbol(t, sc)))
    ELSE IF StartsWith(t, sc, <<"&", "&">>)
    THEN parse_line_loop(t, Next2(t, sc), Append(toks, Tok("And", <<>>, 0, sc)))
    ELSE IF StartsWith(t, sc, <<"|", "|">>)
    THEN parse_line_loop(t, Next2(t, sc), Append(toks, Tok("Or", <<>>, 0, sc)))
    ELSE IF Peek(t, sc) = "="
    THEN parse_line_loop(t, Next(t, sc), Append(toks, Tok("Eq", <<>>, 0, sc)))
    ELSE IF Peek(t, sc) = "!" THEN WithEq(t, sc, toks, "Ne", "Not")
    ELSE IF Peek(t, sc) = "("
    THEN parse_line_loop(t, Next(t, sc), Append(toks, Tok("LParen", <<>>, 0, sc)))
    ELSE IF Peek(t, sc) = ")"
    THEN parse_line_loop(t, Next(t, sc), Append(toks, Tok("RParen", <<>>, 0, sc)))
    ELSE IF Peek(t, sc) = "<" THEN WithEq(t, sc, toks, "Le", "Lt")
    ELSE IF Peek(t, sc) = ">" THEN WithEq(t, sc, toks, "Ge", "Gt")
    ELSE IF StartsWith(t, sc, Continuation) THEN parse_line_loop(t, Next2(t, sc), toks)
    ELSE LineErr(SyntaxErr(Peek(t, sc)), sc)

\* streams.rs 524-658: parse_line, the next non-empty line of tokens.
parse_line(t, sc) == parse_line_loop(t, sc, <<>>)

\* Result of parse_stream: the token lines.
StreamOk(ls) == [st |-> "ok", lines |-> ls, err |-> NoErr]
StreamErr(e) == [st |-> "err", lines |-> <<>>, err |-> e]

\* streams.rs 507-519: parse_stream, parse_line until a line is empty.
RECURSIVE parse_stream_loop(_, _, _)
StreamLine(t, ls, r) ==
    IF r.st # "ok" THEN StreamErr(r.err)
    ELSE IF r.tokens = <<>> THEN StreamOk(ls)
    ELSE parse_stream_loop(t, r.sc, Append(ls, r.tokens))

parse_stream_loop(t, sc, ls) == StreamLine(t, ls, parse_line(t, sc))

parse_stream(t) == parse_stream_loop(t, NoScan, <<>>)

----------------------------------------------------------------------------
(* The expression parser (parser/expr.rs) on one line of tokens; pos is    *)
(* the index of the next token (TokenLine.offset + 1).                     *)

ExprOk(e, pos) == [st |-> "ok", expr |-> e, pos |-> pos, err |-> NoErr]
ExprErr(e) == [st |-> "err", expr |-> NoExpr, pos |-> 0, err |-> e]
MissingErr(expected) == [kind |-> "Missing", io |-> "", name |-> expected]

\* TokenLine::peek: the kind of the next token, "" at the end of the line.
PeekToken(toks, pos) == IF pos <= Len(toks) THEN toks[pos].token ELSE ""

CmpTokens == {"Eq", "Ne", "Lt", "Le", "Gt", "Ge"}

\* expr.rs 208-226: the expression a terminal token stands for.
Terminal(tok) ==
    CASE tok.token = "Symbol" -> Sym(tok.str)
      [] tok.token = "HexLit" -> HexE(tok.num)
      [] tok.token = "IntLit" -> IntE(tok.num)
      [] tok.token = "StrLit" -> StrE(tok.str)

RECURSIVE Expr_parse_top(_, _)
RECURSIVE Expr_parse_and(_, _)

\* expr.rs 132-134, 150-152, 166-181: the right operand of a binary operator
\* is read with parse_top; the node is built from both operands.
Binary(op, lhs, rhs) ==
    IF rhs.st # "ok" THEN rhs
    ELSE IF op = "Or" THEN ExprOk(OrE(lhs.expr, rhs.expr), rhs.pos)
    ELSE IF op = "And" THEN ExprOk(AndE(lhs.expr, rhs.expr), rhs.pos)
    ELSE ExprOk(CmpE(op, lhs.expr, rhs.expr), rhs.pos)

\* expr.rs 195-200: `!` applies to what parse_top reads after it.
Negated(r) == IF r.st # "ok" THEN r ELSE ExprOk(NotE(r.expr), r.pos)

\* expr.rs 238-249: the closing parenthesis after the inner expression.
Closed(toks, r) ==
    IF r.st # "ok" THEN r
    ELSE IF PeekToken(toks, r.pos) = "" THEN ExprErr(MissingErr("RParen"))
    ELSE IF PeekToken(toks, r.pos) # "RParen"
    THEN ExprErr(UnexpectedErr(PeekToken(toks, r.pos), "RParen"))
    ELSE ExprOk(r.expr, r.pos + 1)

\* expr.rs 229-251: parse_paren, called on `(`.
Expr_parse_paren(toks, pos) == Closed(toks, Expr_parse_top(toks, pos + 1))

\* expr.rs 206-226: parse_terminal.
Expr_parse_terminal(toks, pos) ==
    IF PeekToken(toks, pos) = "" THEN ExprErr(MissingErr("Expr"))
    ELSE IF PeekToken(toks, pos) \in {"Symbol", "HexLit", "IntLit", "StrLit"}
    THEN ExprOk(Terminal(toks[pos]), pos + 1)
    ELSE IF PeekToken(toks, pos) = "LParen" THEN Expr_parse_paren(toks, pos)
    ELSE ExprErr(UnexpectedErr(PeekToken(toks, pos), "Expr"))

\* expr.rs 187-203: parse_unary_not.
Expr_parse_unary_not(toks, pos) ==
    IF PeekToken(toks, pos) = "" THEN ExprErr(MissingErr("Expr"))
    ELSE IF PeekToken(toks, pos) = "Not" THEN Negated(Expr_parse_top(toks, pos + 1))
    ELSE Expr_parse_terminal(toks, pos)

ComparisonRest(toks, lhs) ==
    IF lhs.st # "ok" THEN lhs
    ELSE IF PeekToken(toks, lhs.pos) \notin CmpTokens THEN lhs
    ELSE Binary(PeekToken(toks, lhs.pos), lhs, Expr_parse_top(toks, lhs.pos + 1))

\* expr.rs 155-184: parse_comparison.
Expr_parse_comparison(toks, pos) == ComparisonRest(toks, Expr_parse_unary_not(toks, pos))

\* A variant with the usual precedence: the right operand of `&&` is the
\* next conjunction only, not the whole remaining expression.
AndRestTight(toks, lhs) ==
    IF lhs.st # "ok" THEN lhs
    ELSE IF PeekToken(toks, lhs.pos) # "And" THEN lhs
    ELSE Binary("And", lhs, Expr_parse_and(toks, lhs.pos + 1))

AndRest(toks, lhs) ==
    IF lhs.st # "ok" THEN lhs
    ELSE IF PeekToken(toks, lhs.pos) # "And" THEN lhs
    ELSE Binary("And", lhs, Expr_parse_top(toks, lhs.pos + 1))

\* expr.rs 137-152: parse_and.
Expr_parse_and(toks, pos) == AndRest(toks, Expr_parse_comparison(toks, pos))

OrRest(toks, lhs) ==
    IF lhs.st # "ok" THEN lhs
    ELSE IF PeekToken(toks, lhs.pos) # "Or" THEN lhs
    ELSE Binary("Or", lhs, Expr_parse_top(toks, lhs.pos + 1))

\* expr.rs 119-134: parse_or.
Expr_parse_or(toks, pos) == OrRest(toks, Expr_parse_and(toks, pos))

\* expr.rs 113-116: parse_top.
Expr_parse_top(toks, pos) == Expr_parse_or(toks, pos)

\* expr.rs 62-67: after the expression only `if` may follow on the line.
TopResult(toks, r) ==
    IF r.st # "ok" THEN r
    ELSE IF PeekToken(toks, r.pos) \notin {"", "If"}
    THEN ExprErr(UnexpectedErr(PeekToken(toks, r.pos), "Eol"))
    ELSE r

\* expr.rs 59-70: Expr::parse.
Expr_parse(toks) == TopResult(toks, Expr_parse_top(toks, 1))

----------------------------------------------------------------------------
(* Display for Expr and ExprCmpOp (parser/expr.rs 254-317).                *)

DigitChars == <<"0", "1", "2", "3", "4", "5", "6", "7", "8", "9",
                "a", "b", "c", "d", "e", "f">>

\* The digits of n >= 0 in the given radix.
RECURSIVE Digits(_, _)
Digits(n, radix) ==
    IF n < radix THEN <<DigitChars[n + 1]>>
    ELSE Append(Digits(n \div radix, radix), DigitChars[(n % radix) + 1])

\* {i} of an i64
FmtInteger(i) == IF i < 0 THEN <<"-">> \o Digits(0 - i, 10) ELSE Digits(i, 10)

\* 0x{i:x} of a u64
FmtHex(i) == <<"0", "x">> \o Digits(i, 16)

\* {s:?} of a string: what one character is written as.
DebugChar(c) ==
    CASE c = "\"" -> <<"\\", "\"">>
      [] c = "\\" -> <<"\\", "\\">>
      [] c = "\n" -> <<"\\", "n">>
      [] c = "\r" -> <<"\\", "r">>
      [] c = "\t" -> <<"\\", "t">>
      [] c = "<BEL>" -> <<"\\", "u", "{", "7", "}">>
      [] c = "<BS>" -> <<"\\", "u", "{", "8", "}">>
      [] c = "<VT>" -> <<"\\", "u", "{", "b", "}">>
      [] c = "<FF>" -> <<"\\", "u", "{", "c", "}">>
      [] c = "<ESC>" -> <<"\\", "u", "{", "1", "b", "}">>
      [] OTHER -> <<c>>

RECURSIVE DebugChars(_)
DebugChars(s) == IF s = <<>> THEN <<>> ELSE DebugChar(Head(s)) \o DebugChars(Tail(s))

FmtString(s) == <<"\"">> \o DebugChars(s) \o <<"\"">>

\* expr.rs 306-317: Display for ExprCmpOp.
FmtCmpOp(op) ==
    CASE op = "Eq" -> <<"=", "=">>
      [] op = "Ne" -> <<"!", "=">>
      [] op = "Lt" -> <<"<">>
      [] op = "Le" -> <<"<", "=">>
      [] op = "Gt" -> <<">">>
      [] op = "Ge" -> <<">", "=">>

Parens(s) == <<"(">> \o s \o <<")">>

\* format!("({})", e) for the kinds listed in the match arm, "{}" otherwise.
Wrapped(e, kinds, s) == IF e.kind \in kinds THEN Parens(s) ELSE s

\* expr.rs 254-304: Display for Expr.
RECURSIVE Expr_fmt(_)
Expr_fmt(e) ==
    CASE e.kind = "Symbol" -> e.name
      [] e.kind = "Hex" -> FmtHex(e.num)
      [] e.kind = "Integer" -> FmtInteger(e.num)
      [] e.kind = "String" -> FmtString(e.name)
      [] e.kind = "Cmp" ->
            Wrapped(e.lhs, {"And", "Or"}, Expr_fmt(e.lhs))
              \o <<" ">> \o FmtCmpOp(e.op) \o <<" ">>
              \o Wrapped(e.rhs, {"And", "Or"}, Expr_fmt(e.rhs))
      [] e.kind = "Not" ->
            <<"!">> \o Wrapped(e.lhs, {"Cmp", "And", "Or"}, Expr_fmt(e.lhs))
      [] e.kind = "And" ->
            Wrapped(e.lhs, {"Or"}, Expr_fmt(e.lhs)) \o <<" ", "&", "&", " ">>
              \o Wrapped(e.rhs, {"Or"}, Expr_fmt(e.rhs))
      [] e.kind = "Or" ->
            Expr_fmt(e.lhs) \o <<" ", "|", "|", " ">> \o Expr_fmt(e.rhs)

----------------------------------------------------------------------------
(* Expression texts: an operand, then operator and operand alternating.    *)

OpText ==
    [And |-> <<"&", "&">>, Or |-> <<"|", "|">>, Eq |-> <<"=">>, Ne |-> <<"!", "=">>,
     Lt |-> <<"<">>, Le |-> <<"<", "=">>, Gt |-> <<">">>, Ge |-> <<">", "=">>]

BinaryOps == DOMAIN OpText

\* The operand in position i of a chain.
OperandName(i) == <<<<"x">>, <<"y">>, <<"z">>, <<"w">>, <<"v">>>>[i]

\* The chains of n operands: <<operator 1, ..., operator n-1>>.
Chains(n) == [1..(n - 1) -> BinaryOps]

\* The text of a chain from operand i on: words separated by one space.
RECURSIVE ChainText(_, _)
ChainText(ops, i) ==
    IF i > Len(ops) THEN OperandName(i)
    ELSE OperandName(i) \o <<" ">> \o OpText[ops[i]] \o <<" ">> \o ChainText(ops, i + 1)

FlatTexts == {ChainText(ops, 1) : ops \in UNION {Chains(n) : n \in 1..MaxOperands}}

RECURSIVE Join(_)
Join(words) ==
    IF Len(words) = 1 THEN words[1] ELSE words[1] \o <<" ">> \o Join(Tail(words))

\* Texts with negation, parentheses, literals, a trailing `if`, and texts
\* that are no expression.
OtherTexts ==
    {Join(ws) : ws \in
       {<<<<"!">>, <<"x">>, <<"&", "&">>, <<"y">>>>,
        <<<<"(">>, <<"!">>, <<"x">>, <<")">>, <<"&", "&">>, <<"y">>>>,
        <<<<"(">>, <<"x">>, <<"|", "|">>, <<"y">>, <<")">>, <<"|", "|">>, <<"z">>>>,
        <<<<"(">>, <<"x">>, <<"&", "&">>, <<"y">>, <<")">>, <<"|", "|">>, <<"z">>>>,
        <<<<"(">>, <<"x">>, <<"|", "|">>, <<"y">>, <<")">>, <<"&", "&">>, <<"z">>>>,
        <<<<"(">>, <<"x">>, <<"<">>, <<"y">>, <<")">>, <<"<">>, <<"z">>>>,
        <<<<"!">>, <<"(">>, <<"x">>, <<"=">>, <<"y">>, <<")">>>>,
        <<<<"!">>, <<"!">>, <<"x">>>>,
        <<<<"5">>, <<"<">>, <<"0", "x", "1", "f">>>>,
        <<<<"-", "3">>, <<">", "=">>, <<"x">>>>,
        <<<<"\"", "s", "\\", "n", "\"">>, <<"!", "=">>, <<"'", "t", "'">>>>,
        <<<<"x">>, <<"i", "f">>, <<"y">>>>,
        <<<<"x">>, <<"&", "&">>>>,
        <<<<"(">>, <<"x">>>>,
        <<<<"x">>, <<"y">>>>,
        <<<<"x">>, <<"&">>, <<"y">>>>,
        <<<<"\"", "s">>>>}}

ExprTexts == FlatTexts \cup OtherTexts

----------------------------------------------------------------------------
(* Parsing an expression, printing it and parsing the printed text.        *)

InitExpr ==
    /\ pc = "start"
    /\ src \in ExprTexts
    /\ scan = NoScan
    /\ lines = <<>>
    /\ expr = NoExpr
    /\ text = <<>>
    /\ expr2 = NoExpr
    /\ ResolverIdle
    /\ ParserIdle

Tokenized(r, ok, failed) ==
    /\ pc' = IF r.st = "ok" THEN ok ELSE failed
    /\ lines' = <<r.tokens>>
    /\ scan' = r.sc
    /\ err' = r.err

\* parse_line on the text of the expression (streams.rs 524-658).
ExprTokenize ==
    /\ pc = "start"
    /\ Tokenized(parse_line(src, NoScan), "tokens", "failed")
    /\ UNCHANGED <<src, expr, text, expr2>>
    /\ UNCHANGED resVars
    /\ UNCHANGED parseVars

Parsed(r) ==
    /\ pc' = IF r.st = "ok" THEN "parsed" ELSE "failed"
    /\ expr' = r.expr
    /\ err' = r.err

\* Expr::parse on the tokens (expr.rs 59-70).
ExprParse ==
    /\ pc = "tokens"
    /\ Parsed(Expr_parse(lines[1]))
    /\ UNCHANGED <<src, scan, lines, text, expr2>>
    /\ UNCHANGED resVars
    /\ UNCHANGED parseVars

\* Display for Expr (expr.rs 254-304).
ExprDisplay ==
    /\ pc = "parsed"
    /\ pc' = "shown"
    /\ text' = Expr_fmt(expr)
    /\ UNCHANGED <<src, scan, lines, expr, expr2, err>>
    /\ UNCHANGED resVars
    /\ UNCHANGED parseVars

\* parse_line on the printed text.
ExprRetokenize ==
    /\ pc = "shown"
    /\ Tokenized(parse_line(text, NoScan), "retokens", "refailed")
    /\ UNCHANGED <<src, expr, text, expr2>>
    /\ UNCHANGED resVars
    /\ UNCHANGED parseVars

Reparsed(r) ==
    /\ pc' = IF r.st = "ok" THEN "reparsed" ELSE "refailed"
    /\ expr2' = r.expr
    /\ err' = r.err

\* Expr::parse on the tokens of the printed text.
ExprReparse ==
    /\ pc = "retokens"
    /\ Reparsed(Expr_parse(lines[1]))
    /\ UNCHANGED <<src, scan, lines, expr, text>>
    /\ UNCHANGED resVars
    /\ UNCHANGED parseVars

NextExpr ==
    \/ ExprTokenize
    \/ ExprParse
    \/ ExprDisplay
    \/ ExprRetokenize
    \/ ExprReparse

SpecExpr == InitExpr /\ [][NextExpr]_vars

\* What the operators of a chain say when each right operand is the whole
\* rest of the chain.
RECURSIVE RightNested(_, _)
Node(op, l, r) ==
    IF op = "And" THEN AndE(l, r) ELSE IF op = "Or" THEN OrE(l, r) ELSE CmpE(op, l, r)

RightNested(ops, i) ==
    IF i > Len(ops) THEN Sym(OperandName(i))
    ELSE Node(ops[i], Sym(OperandName(i)), RightNested(ops, i + 1))

\* C7: the right operand of `&&`, `||` and of every comparison is the whole
\* remaining expression: a text without parentheses parses to the tree that
\* nests to the right, `x && y || z` to And(x, Or(y, z)).
C7_RightOperandIsRest ==
    pc \in {"parsed", "shown", "retokens", "reparsed", "refailed"}
      => \A n \in 1..MaxOperands : \A ops \in Chains(n) :
            src = ChainText(ops, 1) => expr = RightNested(ops, 1)

C7_Witness ==
    /\ pc = "parsed"
    /\ src = Join(<<<<"x">>, <<"&", "&">>, <<"y">>, <<"|", "|">>, <<"z">>>>)
    /\ expr = AndE(Sym(<<"x">>), OrE(Sym(<<"y">>), Sym(<<"z">>)))

\* C8: printing a parsed expression, tokenizing the text and parsing it
\* again gives a structurally equal tree.
C8_RoundTrip ==
    pc \in {"reparsed", "refailed"} => pc = "reparsed" /\ expr2 = expr

----------------------------------------------------------------------------
(* Texts for the lexer.                                                    *)

\* What stands in front of a backslash-newline, and what follows it.
PreTexts ==
    {<<"a", "b">>, <<"a", " ">>, <<"1", "2">>, <<"&">>, <<"a", " ", "&", "&">>,
     <<"x", " ", "<">>, <<"\"", "s">>, <<"#", " ", "c">>, <<"!">>, <<"0", "x", "1">>,
     <<"i">>, <<"a", "\n", "b">>, <<>>}
PostTexts ==
    {<<"c", "d">>, <<" ", "b">>, <<"3", "4">>, <<"&", " ", "b">>, <<"=", " ", "y">>,
     <<"t", "\"">>, <<"\n", "z">>, <<"f">>, <<"$">>, <<>>}

\* One line under `help`: its indentation and its text; no text and no
\* indentation for an empty line.
HelpLn(ind, txt) == [ind |-> ind, txt |-> txt]
EmptyLn == HelpLn(0, <<>>)
Say == <<"S", "a", "y", " ", "f", "o", "o">>

\* The lines after the first line of a help text indented by n.
RestOptions(n) ==
    {<<>>,
     <<HelpLn(n, <<"b", "a", "r">>)>>,
     <<HelpLn(n + 1, <<"b", "a", "r">>)>>,
     <<EmptyLn, HelpLn(n, <<"b", "a", "r">>)>>,
     <<HelpLn(0, <<"x">>)>>,
     <<HelpLn(n - 1, <<"x">>)>>,
     <<HelpLn(n, <<"b">>), EmptyLn, HelpLn(0, <<"x">>), HelpLn(n, <<"y">>)>>}

\* A help block: empty lines, the first text line, the lines after it.
HelpInputs ==
    UNION {{[blank |-> k, body |-> <<HelpLn(n, Say)>> \o rest] :
               k \in 0..MaxBlank, rest \in RestOptions(n)} : n \in 1..MaxIndent}

Spaces(n) == [i \in 1..n |-> " "]
EmptyLines(n) == [i \in 1..n |-> "\n"]

RECURSIVE LinesText(_)
LinesText(ls) ==
    IF ls = <<>> THEN <<>>
    ELSE Spaces(Head(ls).ind) \o Head(ls).txt \o <<"\n">> \o LinesText(Tail(ls))

HelpText(h) == <<"h", "e", "l", "p", "\n">> \o EmptyLines(h.blank) \o LinesText(h.body)

\* The help blocks without empty lines, introduced by `---help---`.
AliasInputs == {h \in HelpInputs : h.blank = 0}
AliasText(h) ==
    <<"-", "-", "-", "h", "e", "l", "p", "-", "-", "-", "\n">> \o LinesText(h.body)

\* The largest number of fragments in a string literal.
MaxFragments == 2

\* A fragment of a string literal: how it is written, what it stands for.
Fragment(txt, val) == [txt |-> txt, val |-> val]

Fragments ==
    {Fragment(<<"a">>, <<"a">>), Fragment(<<"'">>, <<"'">>)}
    \cup {Fragment(<<"\\", c>>, <<EscapedChar[c]>>) : c \in DOMAIN EscapedChar}
    \cup {Fragment(<<"\\", "u", "{", "4", "1", "}">>, <<"A">>),
          Fragment(<<"\\", "u", "{", "0", "0", "0", "0", "6", "2", "}">>, <<"b">>),
          Fragment(<<"\\", "x", "4", "1">>, <<"A">>),
          Fragment(<<"\\", " ", " ">>, <<>>),
          Fragment(<<"\\", "\n", "\t">>, <<>>)}

RECURSIVE FragmentLists(_)
FragmentLists(n) ==
    IF n = 0 THEN {<<>>}
    ELSE FragmentLists(n - 1)
           \cup {Append(fs, f) : fs \in FragmentLists(n - 1), f \in Fragments}

RECURSIVE Written(_)
Written(fs) == IF fs = <<>> THEN <<>> ELSE Head(fs).txt \o Written(Tail(fs))
RECURSIVE Denoted(_)
Denoted(fs) == IF fs = <<>> THEN <<>> ELSE Head(fs).val \o Denoted(Tail(fs))

\* A line with the string literal and a symbol after it.
StrLitText(fs) == <<"\"">> \o Written(fs) \o <<"\"", " ", "z", "\n">>

\* What may follow the `#` of a comment: plain text, quotes, a known and an
\* unknown escape, an escaped backslash, a backslash as the last character
\* of the line.
CommentBodies ==
    {<<" ", "c">>, <<"\"", "c">>, <<"'">>, <<"\\", "n">>, <<"\\", "x">>,
     <<"\\", "\\">>, <<"c", "\\">>, <<>>}

\* A comment at the start of a line or after a symbol, and a line after it.
CommentText(pre, body) == pre \o <<"#">> \o body \o <<"\n", "z", "\n">>
CommentInputs == {[pre |-> p, body |-> b] : p \in {<<>>, <<"w", " ">>}, b \in CommentBodies}

LexTexts ==
    {[src |-> pre \o Continuation \o post, joined |-> pre \o post] :
        pre \in PreTexts, post \in PostTexts}
    \cup {[src |-> CommentText(c.pre, c.body), joined |-> CommentText(c.pre, c.body)] :
            c \in CommentInputs}
    \cup {[src |-> HelpText(h), joined |-> HelpText(h)] : h \in HelpInputs}
    \cup {[src |-> AliasText(h), joined |-> AliasText(h)] : h \in AliasInputs}
    \cup {[src |-> StrLitText(fs), joined |-> StrLitText(fs)] :
            fs \in FragmentLists(MaxFragments)}

----------------------------------------------------------------------------
(* parse_stream as a state machine: one parse_line call per step.          *)

InitLex ==
    /\ pc = "lexing"
    /\ \E t \in LexTexts : src = t.src /\ text = t.joined
    /\ scan = NoScan
    /\ lines = <<>>
    /\ expr = NoExpr
    /\ expr2 = NoExpr
    /\ ResolverIdle
    /\ ParserIdle

\* streams.rs 511-517: parse_line returned a line, which is pushed.
LexLine ==
    /\ pc = "lexing"
    /\ parse_line(src, scan).st = "ok"
    /\ parse_line(src, scan).tokens # <<>>
    /\ lines' = Append(lines, parse_line(src, scan).tokens)
    /\ scan' = parse_line(src, scan).sc
    /\ UNCHANGED <<pc, src, text, expr, expr2, err>>
    /\ UNCHANGED resVars
    /\ UNCHANGED parseVars

\* streams.rs 512-514, 519: parse_line returned an empty line, the end.
LexEnd ==
    /\ pc = "lexing"
    /\ parse_line(src, scan).st = "ok"
    /\ parse_line(src, scan).tokens = <<>>
    /\ pc' = "done"
    /\ scan' = parse_line(src, scan).sc
    /\ UNCHANGED <<src, text, lines, expr, expr2, err>>
    /\ UNCHANGED resVars
    /\ UNCHANGED parseVars

\* streams.rs 511: parse_line returned an error, which parse_stream returns.
LexFail ==
    /\ pc = "lexing"
    /\ parse_line(src, scan).st = "err"
    /\ pc' = "failed"
    /\ err' = parse_line(src, scan).err
    /\ scan' = parse_line(src, scan).sc
    /\ UNCHANGED <<src, text, lines, expr, expr2>>
    /\ UNCHANGED resVars
    /\ UNCHANGED parseVars

NextLex ==
    \/ LexLine
    \/ LexEnd
    \/ LexFail

SpecLex == InitLex /\ [][NextLex]_vars

\* The tokens of token lines without their locations.
TokenValues(ls) ==
    [i \in 1..Len(ls) |->
        [j \in 1..Len(ls[i]) |->
            [token |-> ls[i][j].token, str |-> ls[i][j].str, num |-> ls[i][j].num]]]

\* What the lexer made of a text: its tokens, or that it failed.
Lexed(ok, ls) == [ok |-> ok, tokens |-> IF ok THEN TokenValues(ls) ELSE <<>>]

\* C9: a text with a backslash-newline in it gives the same tokens as the
\* text with the backslash-newline taken out.
C9_ContinuationJoins ==
    pc \in {"done", "failed"}
      => Lexed(parse_stream(text).st = "ok", parse_stream(text).lines)
           = Lexed(pc = "done", lines)

\* The help text that belongs to the lines ls under a reference indent:
\* lines with the indent (without it) and empty lines, up to the first
\* line with text and less indentation.
RECURSIVE HelpBody(_, _)
HelpBody(ls, indent) ==
    IF ls = <<>> THEN <<>>
    ELSE IF Head(ls).txt = <<>> THEN <<"\n">> \o HelpBody(Tail(ls), indent)
    ELSE IF Head(ls).ind < indent THEN <<>>
    ELSE Spaces(Head(ls).ind - indent) \o Head(ls).txt \o <<"\n">>
           \o HelpBody(Tail(ls), indent)

\* The lines left for normal tokenizing after the help text.
RECURSIVE AfterHelp(_, _)
AfterHelp(ls, indent) ==
    IF ls = <<>> THEN <<>>
    ELSE IF Head(ls).txt # <<>> /\ Head(ls).ind < indent THEN ls
    ELSE AfterHelp(Tail(ls), indent)

RECURSIVE WithoutEmpty(_)
WithoutEmpty(ls) ==
    IF ls = <<>> THEN <<>>
    ELSE IF Head(ls).txt = <<>> THEN WithoutEmpty(Tail(ls))
    ELSE <<Head(ls)>> \o WithoutEmpty(Tail(ls))

RECURSIVE WithoutLeadingNewlines(_)
WithoutLeadingNewlines(s) ==
    IF s # <<>> /\ Head(s) = "\n" THEN WithoutLeadingNewlines(Tail(s)) ELSE s

\* The help block h was lexed as the claim says: the first token line is
\* Help and one StrLit with the text, the lines after the block follow as
\* token lines of their own.
HelpLexedAs(h) ==
    /\ pc = "done"
    /\ Len(lines) = 1 + Len(WithoutEmpty(AfterHelp(h.body, h.body[1].ind)))
    /\ Len(lines[1]) = 2
    /\ lines[1][1].token = "Help"
    /\ lines[1][2].token = "StrLit"
    /\ WithoutLeadingNewlines(lines[1][2].str) = HelpBody(h.body, h.body[1].ind)

\* C10: after a line `help`, with or without empty lines before the text,
\* the indentation of the first line with text is the reference; the lines
\* with that indent and the empty lines make up the text of one StrLit
\* token after Help, and the first less indented line with text is
\* tokenized normally.
C10_HelpBlock ==
    pc \in {"done", "failed"}
      => \A h \in HelpInputs : src = HelpText(h) => HelpLexedAs(h)

\* The token lines of a text whose only tokens are the symbol w, if it is
\* there, and the symbol z on the next line.
Uncommented(pre) ==
    [ok |-> TRUE,
     tokens |-> (IF pre = <<>> THEN <<>> ELSE <<<<[token |-> "Symbol", str |-> <<"w">>, num |-> 0]>>>>)
                   \o <<<<[token |-> "Symbol", str |-> <<"z">>, num |-> 0]>>>>]

\* C30: a comment runs from `#` to the end of its physical line whatever
\* its content: the text after `#` gives no token and no error, and the
\* next line is tokenized as if the comment were not there.
C30_CommentToEndOfLine ==
    pc \in {"done", "failed"}
      => \A c \in CommentInputs :
            src = CommentText(c.pre, c.body)
              => Lexed(pc = "done", lines) = Uncommented(c.pre)

----------------------------------------------------------------------------
(* The scanner as a state machine: next(), advance(n) and read_until(p) in *)
(* any order on one text.                                                  *)

\* The largest byte count handed to advance.
MaxAdvance == 3

ScanTexts ==
    {<<"a", "\t", "b", "\n", "c">>,
     <<"\t", "\t", "x">>,
     <<"a", "b", "c", "d", "e", "f", "\t", "g">>,
     <<"<e-acute>", "a", "\n", "<euro>", "b">>,
     <<"a", "<euro>", "\t", "\n", "\n", "b">>,
     <<"x", "y", "\n", "z", "<e-acute>", "<e-acute>">>}

\* The characters read_until is asked to stop at.
ScanStops == {"\n", "\t", "b"}

InitScan ==
    /\ pc = "scanning"
    /\ src \in ScanTexts
    /\ scan = NoScan
    /\ lines = <<>> /\ expr = NoExpr /\ text = <<>> /\ expr2 = NoExpr
    /\ ResolverIdle
    /\ ParserIdle

\* streams.rs 178-195: next() on a text that is not used up.
ScanNext ==
    /\ pc = "scanning"
    /\ ~IsEmpty(src, scan)
    /\ scan' = Next(src, scan)
    /\ UNCHANGED <<pc, src, lines, expr, text, expr2, err>>
    /\ UNCHANGED resVars
    /\ UNCHANGED parseVars

\* streams.rs 105-136: advance(n).
ScanAdvance ==
    /\ pc = "scanning"
    /\ \E n \in 1..MaxAdvance :
          /\ pc' = IF AdvancePanics(src, scan, n) THEN "panicked" ELSE pc
          /\ scan' = IF AdvancePanics(src, scan, n) THEN scan ELSE Advance(src, scan, n)
    /\ UNCHANGED <<src, lines, expr, text, expr2, err>>
    /\ UNCHANGED resVars
    /\ UNCHANGED parseVars

\* streams.rs 139-158: read_until(c).
ScanReadUntil ==
    /\ pc = "scanning"
    /\ \E c \in ScanStops : scan' = ReadUntil(src, scan, {c})
    /\ UNCHANGED <<pc, src, lines, expr, text, expr2, err>>
    /\ UNCHANGED resVars
    /\ UNCHANGED parseVars

NextScan ==
    \/ ScanNext
    \/ ScanAdvance
    \/ ScanReadUntil

SpecScan == InitScan /\ [][NextScan]_vars

\* line.rs 39-40: the tab stop after a column, the next multiple of 8.
TabStop(column) == ((column + 8) \div 8) * 8

\* The cursor the documentation of next() describes after the character c.
NextAsDocumented(sc, c) ==
    [offset |-> sc.offset + len_utf8(c),
     at |-> sc.at + 1,
     line |-> IF c = "\n" THEN sc.line + 1 ELSE sc.line,
     column |-> IF c = "\n" THEN 1
                ELSE IF c = "\t" THEN TabStop(sc.column)
                ELSE sc.column + 1]

\* C16: next() over a newline increments the line and sets the column to 1,
\* over a tab moves the column to the next multiple-of-8 tab stop, over any
\* other character adds 1 to the column; the byte offset grows by the UTF-8
\* length of the character.
C16_NextMovesLocation ==
    [][ScanNext => scan' = NextAsDocumented(scan, Peek(src, scan))]_vars

\* The cursor reached by calling next() until the byte offset is reached.
RECURSIVE Stepwise(_, _, _)
Stepwise(t, sc, offset) ==
    IF sc.offset >= offset \/ IsEmpty(t, sc) THEN sc
    ELSE Stepwise(t, Next(t, sc), offset)

\* C17: after any sequence of next(), advance(n) and read_until(p) the cursor
\* equals the one reached by next() alone over the characters consumed, and
\* the offset is on a character boundary within the text.
C17_BulkEqualsStepwise ==
    pc = "scanning"
      => /\ scan = Stepwise(src, NoScan, scan.offset)
         /\ OnCharBoundary(src, scan.offset)
         /\ scan.offset <= ByteLen(src)

\* C18: a line `---help---` yields the Help token and starts the capture of
\* the help text exactly as the line `help` does.
C18_HelpAlias ==
    pc \in {"done", "failed"}
      => \A h \in AliasInputs :
            src = AliasText(h)
              => Lexed(pc = "done", lines)
                   = Lexed(parse_stream(HelpText(h)).st = "ok", parse_stream(HelpText(h)).lines)

\* C20: a string literal made of raw characters, single-character escapes,
\* \u{...}, \xHH and backslash-whitespace is lexed as one StrLit token that
\* ends at the closing quote and holds each escape's character, the escaped
\* whitespace left out.
C20_StringLiteral ==
    pc \in {"done", "failed"}
      => \A fs \in FragmentLists(MaxFragments) :
            src = StrLitText(fs)
              => Lexed(pc = "done", lines)
                   = [ok |-> TRUE,
                      tokens |-> <<<<[token |-> "StrLit", str |-> Denoted(fs), num |-> 0],
                                     [token |-> "Symbol", str |-> <<"z">>, num |-> 0]>>>>]

----------------------------------------------------------------------------
(* The block parser (parser/block.rs, choice.rs, config.rs, menu.rs,       *)
(* source.rs) over the token lines of parse_stream.  The recursion of      *)
(* Block::parse is kept as a stack: one frame per block whose parse        *)
(* function has not returned yet.                                          *)

\* location.rs: the line and column of a token.
Loc(tok) == [line |-> tok.line, column |-> tok.column]

\* Located::new: a value together with the location it was read at.
Located(v, loc) == [line |-> loc.line, column |-> loc.column] @@ v

UnexpectedEofErr(expected) == [kind |-> "UnexpectedEof", io |-> "", name |-> expected]

\* Result of reading part of a token line: the value and the position of the
\* next token, or the error.
Read(val, pos) == [st |-> "ok", val |-> val, pos |-> pos, err |-> NoErr]
ReadErr(e) == [st |-> "err", val |-> <<>>, pos |-> 0, err |-> e]

\* streams.rs 387-432: read_cmd_sym (want = "Symbol", expected = "Symbol")
\* and read_cmd_str_lit (want = "StrLit", expected = "StringLiteral").  A
\* token line is never empty, so the command is there.
read_cmd(toks, want, expected, require_eol) ==
    IF Len(toks) < 2 THEN ReadErr(Located(MissingErr(expected), Loc(toks[1])))
    ELSE IF toks[2].token # want
    THEN ReadErr(Located(UnexpectedErr(toks[2].token, expected), Loc(toks[2])))
    ELSE IF require_eol /\ Len(toks) > 2
    THEN ReadErr(Located(UnexpectedErr(toks[3].token, "Eol"), Loc(toks[3])))
    ELSE Read(toks[2].str, 3)

read_cmd_sym(toks, require_eol) == read_cmd(toks, "Symbol", "Symbol", require_eol)
read_cmd_str_lit(toks, require_eol) == read_cmd(toks, "StrLit", "StringLiteral", require_eol)

\* expr.rs 59-70 followed by the caller's `if let Some(unexpected) =
\* tokens.next()`: the expression that starts at pos and ends the line.
ToEol(toks, r) ==
    IF r.st # "ok" THEN ReadErr(r.err)
    ELSE IF r.pos <= Len(toks)
    THEN ReadErr(Located(UnexpectedErr(toks[r.pos].token, "Eol"), Loc(toks[r.pos])))
    ELSE Read(r.expr, r.pos)

Expr_parse_line(toks, pos) == ToEol(toks, TopResult(toks, Expr_parse_top(toks, pos)))

\* expr.rs 119-214: a parsed expression is located at its first token that
\* is not an opening parenthesis.
RECURSIVE Expr_location(_, _)
Expr_location(toks, pos) ==
    IF toks[pos].token = "LParen" THEN Expr_location(toks, pos + 1) ELSE Loc(toks[pos])

\* streams.rs 435-453: read_if_expr(true), None when the line has ended.
read_if_expr(toks, pos) ==
    IF pos > Len(toks) THEN Read(NoExpr, pos)
    ELSE IF toks[pos].token # "If"
    THEN ReadErr(Located(UnexpectedErr(toks[pos].token, "IfOrEol"), Loc(toks[pos])))
    ELSE Expr_parse_line(toks, pos + 1)

\* expr.rs 83-109: parse_dep_vis for `depends on`.
Expr_parse_depends_on(toks) ==
    IF Len(toks) < 2 THEN ReadErr(Located(MissingErr("On"), Loc(toks[1])))
    ELSE IF toks[2].token # "On"
    THEN ReadErr(Located(UnexpectedErr(toks[2].token, "On"), Loc(toks[2])))
    ELSE Expr_parse_line(toks, 3)

\* A variant in which the condition of a target is dropped.
ConfigTargetUnconditional(sym, cond) ==
    IF sym.st # "ok" THEN sym
    ELSE IF cond.st # "ok" THEN cond
    ELSE Read([target |-> sym.val, condition |-> NoExpr], cond.pos)

\* config.rs 295-305: ConfigTarget::parse.
ConfigTarget(sym, cond) ==
    IF sym.st # "ok" THEN sym
    ELSE IF cond.st # "ok" THEN cond
    ELSE Read([target |-> sym.val, condition |-> cond.val], cond.pos)

ConfigTarget_parse(toks) == ConfigTarget(read_cmd_sym(toks, FALSE), read_if_expr(toks, 3))

\* A variant in which orsource is not optional.
is_osource(token) == token = "OSource"

\* token.rs 115-125
is_relative_source(token) == token \in {"ORSource", "RSource"}
is_optional_source(token) == token \in {"OSource", "ORSource"}

\* source.rs 42-62: Source::parse.  The filename is the literal's text.
SourceOf(cmd, r) ==
    IF r.st # "ok" THEN r
    ELSE Read([kind |-> "Source", filename |-> r.val,
               optional |-> is_optional_source(cmd.token),
               relative |-> is_relative_source(cmd.token),
               base_dir |-> SourceBaseDir(is_relative_source(cmd.token), TopDir, BaseDir)],
              r.pos)

Source_parse(toks) == SourceOf(toks[1], read_cmd_str_lit(toks, TRUE))

\* block.rs 151-155: parse_mainmenu.
MainmenuOf(r) ==
    IF r.st # "ok" THEN r ELSE Read([kind |-> "Mainmenu", title |-> r.val], r.pos)

parse_mainmenu(toks) == MainmenuOf(read_cmd_str_lit(toks, TRUE))

\* menu.rs 42-54: the prompt of a menu; a token that is no string literal is
\* reported with Expected::Symbol.
Menu_prompt(toks) ==
    IF Len(toks) < 2 THEN ReadErr(Located(MissingErr("StringLiteral"), Loc(toks[1])))
    ELSE IF toks[2].token # "StrLit"
    THEN ReadErr(Located(UnexpectedErr(toks[2].token, "Symbol"), Loc(toks[2])))
    ELSE IF Len(toks) > 2
    THEN ReadErr(Located(UnexpectedErr(toks[3].token, "Eol"), Loc(toks[3])))
    ELSE Read(toks[2].str, 3)

\* expr.rs 59-70: Expr::parse from the token at pos; what follows the
\* expression is left on the line.
ExprRead(r) == IF r.st # "ok" THEN ReadErr(r.err) ELSE Read(r.expr, r.pos)

Expr_parse_from(toks, pos) == ExprRead(TopResult(toks, Expr_parse_top(toks, pos)))

\* expr.rs 83-109: parse_dep_vis for `visible if`.
Expr_parse_visible_if(toks) ==
    IF Len(toks) < 2 THEN ReadErr(Located(MissingErr("If"), Loc(toks[1])))
    ELSE IF toks[2].token # "If"
    THEN ReadErr(Located(UnexpectedErr(toks[2].token, "If"), Loc(toks[2])))
    ELSE Expr_parse_line(toks, 3)

\* prompt.rs 34-47: the prompt with its condition; Prompt::parse returns
\* right after Expr::parse.
PromptOf(title, cond) ==
    IF cond.st # "ok" THEN cond
    ELSE Read([title |-> title, condition |-> cond.val], cond.pos)

\* prompt.rs 39: Some(Expr::parse(if_token.location(), tokens)?)
Prompt_condition(toks, pos) == Expr_parse_from(toks, pos)

\* prompt.rs 23-48: Prompt::parse, the title being the token at pos.
Prompt_parse(toks, pos) ==
    IF pos > Len(toks)
    THEN ReadErr(Located(MissingErr("StringLiteral"), Loc(toks[pos - 1])))
    ELSE IF toks[pos].token # "StrLit"
    THEN ReadErr(Located(UnexpectedErr(toks[pos].token, "StringLiteral"), Loc(toks[pos])))
    ELSE IF pos + 1 > Len(toks)
    THEN Read([title |-> toks[pos].str, condition |-> NoExpr], pos + 1)
    ELSE IF toks[pos + 1].token # "If"
    THEN ReadErr(Located(UnexpectedErr(toks[pos + 1].token, "IfOrEol"), Loc(toks[pos + 1])))
    ELSE PromptOf(toks[pos].str, Prompt_condition(toks, pos + 2))

\* config.rs 136-145: a type line; the prompt is parsed when the line goes on.
ConfigType_prompt(toks) ==
    IF Len(toks) > 1 THEN Prompt_parse(toks, 2) ELSE Read(<<>>, 2)

\* config.rs 270-289: the condition of a default and the end of its line.
DefaultOf(value, cond) ==
    IF cond.st # "ok" THEN cond
    ELSE Read([value |-> value, condition |-> cond.val], cond.pos)

ConfigDefault_condition(toks, value) ==
    IF value.st # "ok" THEN value
    ELSE IF value.pos > Len(toks)
    THEN Read([value |-> value.val, condition |-> NoExpr], value.pos)
    ELSE IF toks[value.pos].token # "If"
    THEN ReadErr(Located(UnexpectedErr(toks[value.pos].token, "IfOrEol"), Loc(toks[value.pos])))
    ELSE DefaultOf(value.val, Expr_parse_line(toks, value.pos + 1))

\* config.rs 263-290: ConfigDefault::parse.
ConfigDefault_parse(toks) == ConfigDefault_condition(toks, Expr_parse_from(toks, 2))

\* lit_value.rs 5-20: the tokens that are literal values.
lit_value(tok) == tok.token \in {"HexLit", "IntLit", "StrLit", "Symbol"}

RangeOf(toks, cond) ==
    IF cond.st # "ok" THEN cond
    ELSE Read([start |-> toks[2], end |-> toks[3], condition |-> cond.val], cond.pos)

\* config.rs 310-350: ConfigRange::parse.
ConfigRange_parse(toks) ==
    IF Len(toks) < 2 THEN ReadErr(Located(MissingErr("LitValue"), Loc(toks[1])))
    ELSE IF ~lit_value(toks[2])
    THEN ReadErr(Located(UnexpectedErr(toks[2].token, "LitValue"), Loc(toks[2])))
    ELSE IF Len(toks) < 3 THEN ReadErr(Located(MissingErr("LitValue"), Loc(toks[1])))
    ELSE IF ~lit_value(toks[3])
    THEN ReadErr(Located(UnexpectedErr(toks[3].token, "LitValue"), Loc(toks[3])))
    ELSE IF Len(toks) < 4 THEN RangeOf(toks, Read(NoExpr, 4))
    ELSE IF toks[4].token # "If"
    THEN ReadErr(Located(UnexpectedErr(toks[4].token, "IfOrEol"), Loc(toks[4])))
    ELSE RangeOf(toks, Expr_parse_line(toks, 5))

\* A frame of the stack: the block being filled, where its command is, and
\* last_loc of the loops of IfBlock::parse, Menu::parse and Choice::parse.
Frame(blk, loc, last_loc) == [kind |-> blk.kind, blk |-> blk, loc |-> loc, last_loc |-> last_loc]

\* The parse function whose loop reads the next line.
Top == IF stack = <<>> THEN "Top" ELSE stack[Len(stack)].kind

\* PeekableTokenLines::peek (streams.rs 236-245) and the first token of the
\* line peeked.
AtEof == lines_offset >= Len(lines)
Line == lines[lines_offset + 1]
Cmd == Line[1]

SourceTokens == {"Source", "OSource", "RSource", "ORSource"}

\* block.rs 109-147: the commands Block::parse knows.
BlockTokens == {"Choice", "Config", "If", "MenuConfig", "Mainmenu", "Menu"} \cup SourceTokens

\* A variant in which `if` does not end a config.
ConfigStopWithoutIf ==
    {"Choice", "Config", "EndChoice", "EndIf", "EndMenu", "Mainmenu", "Menu",
     "MenuConfig", "ORSource", "OSource", "RSource", "Source"}

\* config.rs 119-134: the commands that end a config.
ConfigStop ==
    {"Choice", "Config", "EndChoice", "EndIf", "EndMenu", "If", "Mainmenu", "Menu",
     "MenuConfig"} \cup SourceTokens

\* config.rs 136-200: the attribute lines of a config.
ConfigEntries ==
    {"Bool", "Hex", "Int", "String", "Tristate", "Comment", "Default", "Depends",
     "Prompt", "Help", "Imply", "Select", "Range", "Option"}

\* The keyword that closes a block.
End(kind) == CASE kind = "If" -> "EndIf" [] kind = "Menu" -> "EndMenu" [] kind = "Choice" -> "EndChoice"

\* The commands each loop has an arm for; any other reaches todo!() or
\* unimplemented!() (block.rs 147, choice.rs 99, config.rs 202).
Handled(top) ==
    CASE top = "Top" -> BlockTokens
      [] top = "If" -> BlockTokens \cup {"EndIf"}
      [] top = "Menu" -> BlockTokens \cup {"EndMenu", "Comment", "Depends", "Visible"}
      [] top = "Choice" -> {"EndChoice", "Config", "Default", "Depends", "Help", "Prompt", "Bool"}
      [] top = "Config" -> ConfigStop \cup ConfigEntries

\* The loops that hand the line to Block::parse.
CallsBlockParse == Top \in {"Top", "If", "Menu"} /\ ~AtEof

\* block.rs 247, menu.rs 70, choice.rs 61: last_loc = cmd.location() for the
\* line the loop of the innermost block has peeked.
Seen(stk, tok) ==
    IF stk = <<>> \/ stk[Len(stk)].kind = "Config" THEN stk
    ELSE [stk EXCEPT ![Len(stk)].last_loc = Loc(tok)]

\* items.push (block.rs 259), items.push (menu.rs 101), configs.push
\* (choice.rs 71).
Pushed(frame, b) ==
    CASE frame.kind = "If" -> [frame EXCEPT !.blk.items = Append(@, b)]
      [] frame.kind = "Menu" -> [frame EXCEPT !.blk.blocks = Append(@, b)]
      [] frame.kind = "Choice" -> [frame EXCEPT !.blk.configs = Append(@, b)]

\* A parse function returns b to the loop that called it: the loop of an
\* open block, or the loop of read_from_str_raw (kconfig.rs 50-52).
Return(stk, b) ==
    /\ stack' = IF stk = <<>> THEN stk ELSE [stk EXCEPT ![Len(stk)] = Pushed(@, b)]
    /\ blocks' = IF stk = <<>> THEN Append(blocks, b) ELSE blocks

\* `?` on an error.
Fail(e) ==
    /\ pc' = "failed"
    /\ err' = e
    /\ UNCHANGED <<blocks, stack, lines_offset>>

Popped == SubSeq(stack, 1, Len(stack) - 1)

parseIdle == <<api, files, idx, returned, last, scan, expr, text, expr2>>

----------------------------------------------------------------------------
(* Kconfig texts for the block parser, written as statements and spelled   *)
(* out as characters.                                                      *)

\* The largest number of top-level statements, of attribute lines of a
\* config, and of blocks left open inside one another.
MaxStatements == 3
MaxAttrs == 2
MaxDepth == 2

\* How each keyword is written.
Spell ==
    [Mainmenu |-> <<"m", "a", "i", "n", "m", "e", "n", "u">>,
     Source |-> <<"s", "o", "u", "r", "c", "e">>,
     OSource |-> <<"o", "s", "o", "u", "r", "c", "e">>,
     RSource |-> <<"r", "s", "o", "u", "r", "c", "e">>,
     ORSource |-> <<"o", "r", "s", "o", "u", "r", "c", "e">>,
     Config |-> <<"c", "o", "n", "f", "i", "g">>,
     MenuConfig |-> <<"m", "e", "n", "u", "c", "o", "n", "f", "i", "g">>,
     If |-> <<"i", "f">>,
     Menu |-> <<"m", "e", "n", "u">>,
     Choice |-> <<"c", "h", "o", "i", "c", "e">>,
     EndIf |-> <<"e", "n", "d", "i", "f">>,
     EndMenu |-> <<"e", "n", "d", "m", "e", "n", "u">>,
     EndChoice |-> <<"e", "n", "d", "c", "h", "o", "i", "c", "e">>,
     Select |-> <<"s", "e", "l", "e", "c", "t">>,
     Imply |-> <<"i", "m", "p", "l", "y">>,
     Depends |-> <<"d", "e", "p", "e", "n", "d", "s", " ", "o", "n">>,
     Visible |-> <<"v", "i", "s", "i", "b", "l", "e", " ", "i", "f">>,
     Default |-> <<"d", "e", "f", "a", "u", "l", "t">>,
     Range |-> <<"r", "a", "n", "g", "e">>,
     Prompt |-> <<"p", "r", "o", "m", "p", "t">>,
     Bool |-> <<"b", "o", "o", "l">>,
     Tristate |-> <<"t", "r", "i", "s", "t", "a", "t", "e">>,
     DefBool |-> <<"d", "e", "f", "_", "b", "o", "o", "l">>,
     Optional |-> <<"o", "p", "t", "i", "o", "n", "a", "l">>]

\* A statement: its keyword, its argument (a name, a condition, or the text
\* of a string literal, <<>> when there is none), the attribute lines of a
\* config, the statements inside a block, and whether the block is closed.
Stmt(kind, kw, arg, attrs, items, closed) ==
    [kind |-> kind, kw |-> kw, arg |-> arg, attrs |-> attrs, items |-> items, closed |-> closed]

\* An attribute line: the keyword, what it is given (a target, a value, a
\* title), the condition, and what is written after the complete line:
\* select/imply TARGET [if COND], depends on COND, default VALUE [if COND].
Attr(kw, target, cond) == [kw |-> kw, target |-> target, cond |-> cond, tail |-> <<>>]

Tailed(a, tail) == [a EXCEPT !.tail = tail]

Leaf(kind, kw, arg) == Stmt(kind, kw, arg, <<>>, <<>>, TRUE)
ConfigStmt(name, attrs) == Stmt("Config", "Config", name, attrs, <<>>, TRUE)

\* A comment-only line and a blank line.
Noise == {Leaf("Noise", "", <<"#", " ", "c">>), Leaf("Noise", "", <<>>)}

Attrs ==
    {Attr("Select", <<"B", "A", "R">>, <<"B", "A", "Z">>),
     Attr("Select", <<"Q", "U", "X">>, <<>>),
     Attr("Imply", <<"B", "A", "Z">>, <<>>),
     Attr("Depends", <<>>, <<"B", "A", "Z">>)}

RECURSIVE AttrLists(_)
AttrLists(n) ==
    IF n = 0 THEN {<<>>}
    ELSE AttrLists(n - 1) \cup {Append(as, a) : as \in AttrLists(n - 1), a \in Attrs}

Sources ==
    {Leaf("Source", kw, <<"/", "t", "m", "p", "/", "f">>) : kw \in SourceTokens}
    \cup {Leaf("Source", "Source", <<"$", "I", "D", "F", "_", "P", "A", "T", "H", "/", "K">>)}

FOO == ConfigStmt(<<"F", "O", "O">>, <<>>)
BAR == ConfigStmt(<<"B", "A", "R">>, <<Attr("Select", <<"B", "A", "R">>, <<"B", "A", "Z">>)>>)

\* The block of each kind, with a name or without.
Heads ==
    {[kind |-> "If", arg |-> <<"X">>], [kind |-> "Menu", arg |-> <<"M">>],
     [kind |-> "Choice", arg |-> <<"C">>], [kind |-> "Choice", arg |-> <<>>]}

BlockStmt(h, items, closed) == Stmt(h.kind, h.kind, h.arg, <<>>, items, closed)

ClosedBlocks == {BlockStmt(h, items, TRUE) : h \in Heads, items \in {<<>>, <<FOO>>}}

\* The statements that texts of several statements are made of.
Statements ==
    {Leaf("Mainmenu", "Mainmenu", <<"H", "i", "!">>),
     Leaf("Source", "Source", <<"/", "t", "m", "p", "/", "f">>),
     FOO, BAR,
     BlockStmt([kind |-> "If", arg |-> <<"X">>], <<FOO>>, TRUE),
     BlockStmt([kind |-> "Choice", arg |-> <<"C">>], <<FOO>>, TRUE)}
    \cup Noise

RECURSIVE Sequences(_, _)
Sequences(S, n) ==
    IF n = 0 THEN {<<>>}
    ELSE Sequences(S, n - 1) \cup {Append(q, s) : q \in Sequences(S, n - 1), s \in S}

\* What a text ends with when blocks are left open: the innermost block
\* holds nothing, a config, or a config with an attribute line.
LastItems == {<<>>, <<FOO>>, <<BAR>>}

RECURSIVE OpenBlocks(_)
OpenBlocks(depth) ==
    IF depth = 1
    THEN {BlockStmt(h, items, FALSE) : h \in {h \in Heads : h.arg # <<>>}, items \in LastItems}
    ELSE OpenBlocks(depth - 1)
           \cup {BlockStmt(h, <<b>>, FALSE) :
                   h \in {h \in Heads : h.kind # "Choice"}, b \in OpenBlocks(depth - 1)}

\* A closing keyword with no block to close, and a line that is no Kconfig.
Stray == Leaf("Stray", "EndIf", <<>>)
Garbled == Leaf("Garbled", "", <<"@">>)

QUX == <<"Q", "U", "X">>

Quoted(s) == <<"\"">> \o s \o <<"\"">>

\* Complete attribute lines that end with an expression, and complete lines
\* without a condition.
Conditional ==
    {Attr("Default", <<"y">>, <<"A">>),
     Attr("Select", <<"X">>, <<"A">>),
     Attr("Imply", <<"X">>, <<"A">>),
     Attr("Range", <<"1", " ", "5">>, <<"A">>),
     Attr("Prompt", Quoted(<<"T">>), <<"A">>),
     Attr("Bool", Quoted(<<"T">>), <<"A">>),
     Attr("Depends", <<>>, <<"A">>),
     Attr("Visible", <<>>, <<"A">>)}

Unconditional ==
    {Attr("Default", <<"y">>, <<>>),
     Attr("Range", <<"1", " ", "5">>, <<>>),
     Attr("Prompt", Quoted(<<"T">>), <<>>),
     Attr("Bool", <<>>, <<>>)}

\* What a text may go on with after a complete line: nothing, a symbol, an
\* `if` with an expression, a closing parenthesis.
Tails == {<<>>, <<" ", "B">>, <<" ", "i", "f", " ", "B">>, <<" ", ")">>}

\* The text in which the line a, followed by tail, is an attribute line: of
\* a menu for visible if, of a config otherwise.
LineProgram(a, tail) ==
    IF a.kw = "Visible"
    THEN <<Stmt("Menu", "Menu", <<"M">>, <<Tailed(a, tail)>>, <<FOO>>, TRUE)>>
    ELSE <<ConfigStmt(QUX, <<Tailed(a, tail)>>), FOO>>

\* The text in which `if A`, followed by tail, opens an if block.
IfLine(tail) == <<BlockStmt([kind |-> "If", arg |-> <<"A">> \o tail], <<FOO>>, TRUE)>>

\* A choice with a prompt line.
Prompted ==
    <<Stmt("Choice", "Choice", <<"C">>, <<Attr("Prompt", Quoted(<<"T">>), <<>>)>>, <<FOO>>, TRUE)>>

\* Lines whose keyword the loop that reads them has no arm for: attribute
\* keywords of a config, closing keywords and an attribute at the top level,
\* attribute keywords of a choice; and a prompt line without a title.
Unhandled ==
    {<<ConfigStmt(QUX, <<a>>), FOO>> :
        a \in {Attr("DefBool", <<"y">>, <<>>), Attr("Optional", <<>>, <<>>),
               Attr("Prompt", <<>>, <<>>)}}
    \cup {<<FOO, Leaf("Stray", kw, <<>>)>> : kw \in {"EndIf", "EndMenu", "EndChoice"}}
    \cup {<<Leaf("Mainmenu", "Mainmenu", <<"H", "i", "!">>), Leaf("Stray", "Select", <<"X">>)>>}
    \cup {<<Stmt("Choice", "Choice", <<"C">>, <<Attr("Tristate", <<>>, <<>>)>>, <<FOO>>, TRUE)>>}

\* A config followed by a source statement of each kind and by a menuconfig.
Followed ==
    {<<FOO, s>> : s \in Sources \cup {Stmt("MenuConfig", "MenuConfig", QUX, <<>>, <<>>, TRUE)}}

\* The texts in which something is written after a complete line.
Trailing ==
    {LineProgram(a, tail) : a \in Conditional, tail \in Tails \ {<<>>}}
    \cup {IfLine(tail) : tail \in Tails \ {<<>>}}

Programs ==
    Sequences(Statements, MaxStatements)
    \cup {<<s>> : s \in Sources \cup ClosedBlocks}
    \cup {LineProgram(a, <<>>) : a \in Conditional \cup Unconditional}
    \cup {IfLine(<<>>)}
    \cup Trailing
    \cup {Prompted}
    \cup Followed
    \cup Unhandled
    \cup {<<ConfigStmt(QUX, as), FOO>> : as \in AttrLists(MaxAttrs)}
    \cup {Append(q, b) : q \in Sequences(Statements, 1), b \in OpenBlocks(MaxDepth) \cup {Stray, Garbled}}

AttrText(a) ==
    <<" ", " ">> \o Spell[a.kw]
      \o (IF a.target = <<>> THEN <<>> ELSE <<" ">> \o a.target)
      \o (IF a.cond = <<>> THEN <<>>
          ELSE IF a.kw \in {"Depends", "Visible"} THEN <<" ">> \o a.cond
          ELSE <<" ", "i", "f", " ">> \o a.cond)
      \o a.tail
      \o <<"\n">>

RECURSIVE AttrsText(_)
AttrsText(as) == IF as = <<>> THEN <<>> ELSE AttrText(Head(as)) \o AttrsText(Tail(as))

\* The first line of a statement.
HeadText(s) ==
    (IF s.kind \in {"Noise", "Garbled"} THEN s.arg
     ELSE IF s.arg = <<>> THEN Spell[s.kw]
     ELSE IF s.kind \in {"Mainmenu", "Source", "Menu"} THEN Spell[s.kw] \o <<" ">> \o Quoted(s.arg)
     ELSE Spell[s.kw] \o <<" ">> \o s.arg)
    \o <<"\n">>

EndText(s) ==
    IF s.kind \in {"If", "Menu", "Choice"} /\ s.closed
    THEN Spell[End(s.kind)] \o <<"\n">> ELSE <<>>

RECURSIVE ProgramText(_)
StmtText(s) == HeadText(s) \o AttrsText(s.attrs) \o ProgramText(s.items) \o EndText(s)
ProgramText(p) == IF p = <<>> THEN <<>> ELSE StmtText(Head(p)) \o ProgramText(Tail(p))

----------------------------------------------------------------------------
(* The raw parse (KConfig::read_from_str_raw) as a state machine: one      *)
(* action per line handed to a loop of the block parser.                   *)

InitParse ==
    /\ pc = "lexing"
    /\ input \in Programs
    /\ src = ProgramText(input)
    /\ lines = <<>>
    /\ blocks = <<>>
    /\ err = NoErr
    /\ ParserIdle
    /\ api = "none" /\ files = DefaultFs /\ idx = 0 /\ returned = Ok(<<>>) /\ last = NoLast
    /\ scan = NoScan /\ expr = NoExpr /\ text = <<>> /\ expr2 = NoExpr

\* streams.rs 512-514, 519, kconfig.rs 47-48: parse_line returned an empty
\* line, parse_stream returns the lines and the block parser starts on them.
PeekLines ==
    /\ pc = "lexing"
    /\ parse_line(src, scan).st = "ok"
    /\ parse_line(src, scan).tokens = <<>>
    /\ pc' = "parsing"
    /\ scan' = parse_line(src, scan).sc
    /\ UNCHANGED <<src, text, lines, expr, expr2, err>>
    /\ UNCHANGED resVars
    /\ UNCHANGED parseVars

\* block.rs 130-134: a mainmenu line.
ParseMainmenu ==
    /\ pc = "parsing" /\ CallsBlockParse /\ Cmd.token = "Mainmenu"
    /\ IF parse_mainmenu(Line).st = "ok"
       THEN /\ Return(Seen(stack, Cmd), Located(parse_mainmenu(Line).val, Loc(Cmd)))
            /\ lines_offset' = lines_offset + 1
            /\ UNCHANGED <<pc, err>>
       ELSE Fail(parse_mainmenu(Line).err)
    /\ UNCHANGED <<input, src, lines>>
    /\ UNCHANGED parseIdle

\* block.rs 141-145: a source, osource, rsource or orsource line.
ParseSource ==
    /\ pc = "parsing" /\ CallsBlockParse /\ Cmd.token \in SourceTokens
    /\ IF Source_parse(Line).st = "ok"
       THEN /\ Return(Seen(stack, Cmd), Located(Source_parse(Line).val, Loc(Cmd)))
            /\ lines_offset' = lines_offset + 1
            /\ UNCHANGED <<pc, err>>
       ELSE Fail(Source_parse(Line).err)
    /\ UNCHANGED <<input, src, lines>>
    /\ UNCHANGED parseIdle

\* A parse function has read its first line and enters its loop.
Enter(r, blk, last_loc) ==
    /\ IF r.st = "ok"
       THEN /\ stack' = Append(Seen(stack, Cmd), Frame(blk, Loc(Cmd), last_loc))
            /\ lines_offset' = lines_offset + 1
            /\ UNCHANGED <<pc, err, blocks>>
       ELSE Fail(r.err)
    /\ UNCHANGED <<input, src, lines>>
    /\ UNCHANGED parseIdle

\* block.rs 220-236: IfBlock::parse up to its loop.
IfBlock_parse ==
    /\ pc = "parsing" /\ CallsBlockParse /\ Cmd.token = "If"
    /\ Enter(Expr_parse_line(Line, 2),
             [kind |-> "If", condition |-> Expr_parse_line(Line, 2).val, items |-> <<>>],
             Expr_location(Line, 2))

\* menu.rs 33-58: Menu::parse up to its loop.
Menu_parse ==
    /\ pc = "parsing" /\ CallsBlockParse /\ Cmd.token = "Menu"
    /\ Enter(Menu_prompt(Line),
             [kind |-> "Menu", prompt |-> Menu_prompt(Line).val, blocks |-> <<>>,
              depends_on |-> <<>>, visibility |-> NoExpr],
             Loc(Line[2]))

\* choice.rs 37-50: Choice::parse up to its loop.
Choice_parse ==
    /\ pc = "parsing" /\ CallsBlockParse /\ Cmd.token = "Choice"
    /\ Enter(read_cmd_sym(Line, TRUE),
             [kind |-> "Choice", name |-> read_cmd_sym(Line, TRUE).val, configs |-> <<>>,
              depends_on |-> <<>>, prompt |-> <<>>],
             Loc(Line[2]))

\* config.rs 86-107: Config::parse up to its loop, called by Block::parse
\* for config and menuconfig and by Choice::parse for config.  The type
\* and the prompt start as what config.rs 206-207 puts in their place when
\* no line sets them.
Config_parse ==
    /\ pc = "parsing" /\ ~AtEof
    /\ \/ Top \in {"Top", "If", "Menu"} /\ Cmd.token \in {"Config", "MenuConfig"}
       \/ Top = "Choice" /\ Cmd.token = "Config"
    /\ Enter(read_cmd_sym(Line, TRUE),
             [kind |-> Cmd.token, name |-> read_cmd_sym(Line, TRUE).val,
              depends_on |-> <<>>, selects |-> <<>>, implies |-> <<>>,
              type |-> "Unknown",
              prompt |-> [title |-> read_cmd_sym(Line, TRUE).val, condition |-> NoExpr],
              defaults |-> <<>>, ranges |-> <<>>],
             Loc(Cmd))

\* An attribute line has been read into the block of the innermost frame.
Entry(r, frame) ==
    /\ IF r.st = "ok"
       THEN /\ stack' = [Seen(stack, Cmd) EXCEPT ![Len(stack)] = frame]
            /\ lines_offset' = lines_offset + 1
            /\ UNCHANGED <<pc, err, blocks>>
       ELSE Fail(r.err)
    /\ UNCHANGED <<input, src, lines>>
    /\ UNCHANGED parseIdle

\* config.rs 185-189: a select line.
ConfigSelect ==
    /\ pc = "parsing" /\ Top = "Config" /\ ~AtEof /\ Cmd.token = "Select"
    /\ Entry(ConfigTarget_parse(Line),
             [stack[Len(stack)] EXCEPT !.blk.selects = Append(@, ConfigTarget_parse(Line).val)])

\* config.rs 179-183: an imply line.
ConfigImply ==
    /\ pc = "parsing" /\ Top = "Config" /\ ~AtEof /\ Cmd.token = "Imply"
    /\ Entry(ConfigTarget_parse(Line),
             [stack[Len(stack)] EXCEPT !.blk.implies = Append(@, ConfigTarget_parse(Line).val)])

\* config.rs 161-165, menu.rs 85-89, choice.rs 80-84: a depends on line.
DependsOn ==
    /\ pc = "parsing" /\ Top \in {"Config", "Menu", "Choice"} /\ ~AtEof /\ Cmd.token = "Depends"
    /\ Entry(Expr_parse_depends_on(Line),
             [Seen(stack, Cmd)[Len(stack)] EXCEPT
                 !.blk.depends_on = Append(@, Expr_parse_depends_on(Line).val)])

\* config.rs 136-145: a bool, hex, int, string or tristate line.
ConfigType ==
    /\ pc = "parsing" /\ Top = "Config" /\ ~AtEof
    /\ Cmd.token \in {"Bool", "Hex", "Int", "String", "Tristate"}
    /\ Entry(ConfigType_prompt(Line),
             [stack[Len(stack)] EXCEPT
                 !.blk.type = Cmd.token,
                 !.blk.prompt = IF Len(Line) > 1 THEN ConfigType_prompt(Line).val ELSE @])

\* config.rs 167-172: a prompt line; the assertion fails when nothing
\* follows the keyword.
ConfigPrompt ==
    /\ pc = "parsing" /\ Top = "Config" /\ ~AtEof /\ Cmd.token = "Prompt"
    /\ IF Len(Line) = 1
       THEN /\ pc' = "panicked"
            /\ UNCHANGED <<err, blocks, stack, lines_offset, input, src, lines>>
            /\ UNCHANGED parseIdle
       ELSE Entry(Prompt_parse(Line, 2),
                  [stack[Len(stack)] EXCEPT !.blk.prompt = Prompt_parse(Line, 2).val])

\* choice.rs 93-97: a prompt or bool line of a choice.
ChoicePrompt ==
    /\ pc = "parsing" /\ Top = "Choice" /\ ~AtEof /\ Cmd.token \in {"Prompt", "Bool"}
    /\ Entry(Prompt_parse(Line, 2),
             [Seen(stack, Cmd)[Len(stack)] EXCEPT !.blk.prompt = Prompt_parse(Line, 2).val])

\* config.rs 154-159: a default line.
ConfigDefault ==
    /\ pc = "parsing" /\ Top = "Config" /\ ~AtEof /\ Cmd.token = "Default"
    /\ Entry(ConfigDefault_parse(Line),
             [stack[Len(stack)] EXCEPT
                 !.blk.defaults = Append(@, ConfigDefault_parse(Line).val)])

\* config.rs 191-195: a range line.
ConfigRange ==
    /\ pc = "parsing" /\ Top = "Config" /\ ~AtEof /\ Cmd.token = "Range"
    /\ Entry(ConfigRange_parse(Line),
             [stack[Len(stack)] EXCEPT !.blk.ranges = Append(@, ConfigRange_parse(Line).val)])

\* menu.rs 91-95: a visible if line.
MenuVisible ==
    /\ pc = "parsing" /\ Top = "Menu" /\ ~AtEof /\ Cmd.token = "Visible"
    /\ Entry(Expr_parse_visible_if(Line),
             [Seen(stack, Cmd)[Len(stack)] EXCEPT
                 !.blk.visibility = Expr_parse_visible_if(Line).val])

\* config.rs 108-134, 204-221: the config ends before the next block command
\* or at the end of the lines; the line is left to the caller.  Block::parse
\* locates the config at its command, Choice::parse pushes it as it is.
Config_return ==
    /\ pc = "parsing" /\ Top = "Config"
    /\ IF AtEof THEN TRUE ELSE Cmd.token \in ConfigStop
    /\ Return(Popped,
              IF Popped # <<>> /\ Popped[Len(Popped)].kind = "Choice"
              THEN stack[Len(stack)].blk
              ELSE Located(stack[Len(stack)].blk, stack[Len(stack)].loc))
    /\ UNCHANGED <<pc, err, lines_offset, input, src, lines>>
    /\ UNCHANGED parseIdle

\* block.rs 250-253, menu.rs 73-76, choice.rs 64-67: the closing keyword of
\* the innermost block; Block::parse locates the block at its command.
EndBlock ==
    /\ pc = "parsing" /\ Top \in {"If", "Menu", "Choice"} /\ ~AtEof
    /\ Cmd.token = End(Top)
    /\ Return(Popped, Located(stack[Len(stack)].blk, stack[Len(stack)].loc))
    /\ lines_offset' = lines_offset + 1
    /\ UNCHANGED <<pc, err, input, src, lines>>
    /\ UNCHANGED parseIdle

\* block.rs 239-241, menu.rs 62-64, choice.rs 53-55: the lines end inside
\* a block.
UnexpectedEof ==
    /\ pc = "parsing" /\ Top \in {"If", "Menu", "Choice"} /\ AtEof
    /\ Fail(Located(UnexpectedEofErr(End(Top)), stack[Len(stack)].last_loc))
    /\ UNCHANGED <<input, src, lines>>
    /\ UNCHANGED parseIdle

\* block.rs 101-103, kconfig.rs 50-54: no line is left at the top level.
ParseEnd ==
    /\ pc = "parsing" /\ Top = "Top" /\ AtEof
    /\ pc' = "done"
    /\ UNCHANGED <<err, blocks, stack, lines_offset, input, src, lines>>
    /\ UNCHANGED parseIdle

\* block.rs 147, choice.rs 99, config.rs 202: todo!() and unimplemented!().
ParsePanic ==
    /\ pc = "parsing" /\ ~AtEof /\ Cmd.token \notin Handled(Top)
    /\ pc' = "panicked"
    /\ UNCHANGED <<err, blocks, stack, lines_offset, input, src, lines>>
    /\ UNCHANGED parseIdle

NextParse ==
    \/ LexLine
    \/ LexFail
    \/ PeekLines
    \/ ParseMainmenu
    \/ ParseSource
    \/ IfBlock_parse
    \/ Menu_parse
    \/ Choice_parse
    \/ Config_parse
    \/ ConfigSelect
    \/ ConfigImply
    \/ DependsOn
    \/ ConfigType
    \/ ConfigPrompt
    \/ ChoicePrompt
    \/ ConfigDefault
    \/ ConfigRange
    \/ MenuVisible
    \/ Config_return
    \/ EndBlock
    \/ UnexpectedEof
    \/ ParseEnd
    \/ ParsePanic

SpecParse == InitParse /\ [][NextParse]_vars

----------------------------------------------------------------------------
(* What the raw parse of a text must give, read off the statements the     *)
(* text was written from.                                                  *)

Terminated == pc \in {"done", "failed", "panicked"}

Last(q) == q[Len(q)]

\* The statements of a text that are no blank and no comment-only line.
TopLevel(p) == SelectSeq(p, LAMBDA s : s.kind # "Noise")

\* The number of lines of a text that hold a token.
RECURSIVE TokenLines(_)
StmtLines(s) ==
    IF s.kind = "Noise" THEN 0
    ELSE 1 + Len(s.attrs) + TokenLines(s.items)
           + (IF s.kind \in {"If", "Menu", "Choice"} /\ s.closed THEN 1 ELSE 0)
TokenLines(p) == IF p = <<>> THEN 0 ELSE StmtLines(Head(p)) + TokenLines(Tail(p))

IsOpen(s) == s.kind \in {"If", "Menu", "Choice"} /\ ~s.closed

\* A text in which every block is closed and every line is a statement.
Complete(p) ==
    /\ \A i \in DOMAIN p : p[i].closed /\ p[i].kind \notin {"Stray", "Garbled"}
    /\ p \notin Trailing \cup Unhandled

\* The innermost block a text leaves open.
RECURSIVE Innermost(_)
Innermost(s) ==
    IF s.items # <<>> /\ IsOpen(Last(s.items)) THEN Innermost(Last(s.items)) ELSE s

\* C11: when the lines end while an if, menu or choice is open the parse fails
\* with UnexpectedEof(EndIf / EndMenu / EndChoice) for the innermost open
\* block, located at the last line that was consumed.
C11_UnexpectedEof ==
    (Terminated /\ input # <<>> /\ IsOpen(Last(input)))
      => /\ pc = "failed"
         /\ err.kind = "UnexpectedEof"
         /\ err.name = End(Innermost(Last(input)).kind)
         /\ err.line = Last(lines)[1].line

\* C12: a line `choice` without a name is accepted and the choice gets a
\* synthesized name; a line `choice NAME` gives the choice the name NAME.
C12_ChoiceName ==
    (Terminated /\ Complete(input))
      => /\ pc = "done"
         /\ \A i \in DOMAIN blocks :
               TopLevel(input)[i].kind = "Choice"
                 => IF TopLevel(input)[i].arg = <<>> THEN blocks[i].name # <<>>
                    ELSE blocks[i].name = TopLevel(input)[i].arg

\* C13: the raw parse gives one top-level block per top-level statement, in
\* the order of the text; blank and comment-only lines give no token line and
\* no block, and no token line is empty.
C13_OneBlockPerStatement ==
    /\ \A i \in DOMAIN lines : lines[i] # <<>>
    /\ pc = "done"
         => /\ Len(lines) = TokenLines(input)
            /\ Len(blocks) = Len(TopLevel(input))
            /\ \A i \in DOMAIN blocks :
                  /\ blocks[i].kind = TopLevel(input)[i].kind
                  /\ i > 1 => blocks[i - 1].line < blocks[i].line

C13_Witness ==
    /\ pc = "done"
    /\ Len(input) = 3
    /\ Len(blocks) = 3
    /\ blocks[1].kind = "Mainmenu" /\ blocks[1].title = <<"H", "i", "!">>
    /\ blocks[2].kind = "Source" /\ blocks[3].kind = "Source"

\* The entries the select (or imply) lines of a config stand for.
Targets(as, kw) ==
    [j \in DOMAIN SelectSeq(as, LAMBDA a : a.kw = kw) |->
        [target |-> SelectSeq(as, LAMBDA a : a.kw = kw)[j].target,
         condition |-> IF SelectSeq(as, LAMBDA a : a.kw = kw)[j].cond = <<>> THEN NoExpr
                       ELSE Sym(SelectSeq(as, LAMBDA a : a.kw = kw)[j].cond)]]

\* C14: every line `select TARGET [if EXPR]` of a config adds one entry to the
\* selects of that config, in the order of the text, with the target and the
\* condition (none without `if`); the implies and the other configs are not
\* touched.
C14_Selects ==
    pc = "done"
      => \A i \in DOMAIN blocks :
            TopLevel(input)[i].kind = "Config"
              => /\ blocks[i].name = TopLevel(input)[i].arg
                 /\ blocks[i].selects = Targets(TopLevel(input)[i].attrs, "Select")
                 /\ blocks[i].implies = Targets(TopLevel(input)[i].attrs, "Imply")

C14_Witness ==
    /\ pc = "done"
    /\ Len(blocks) = 2
    /\ blocks[1].kind = "Config" /\ blocks[1].name = <<"F", "O", "O">>
    /\ blocks[1].selects = <<>>
    /\ blocks[2].kind = "Config" /\ blocks[2].name = <<"B", "A", "R">>
    /\ blocks[2].selects
         = <<[target |-> <<"B", "A", "R">>, condition |-> Sym(<<"B", "A", "Z">>)]>>
    /\ blocks[2].implies = <<>>

\* C15: a source, osource, rsource or orsource line gives a Source block with
\* the file name as written, optional exactly for osource and orsource,
\* relative exactly for rsource and orsource.
C15_SourceFlags ==
    pc = "done"
      => \A i \in DOMAIN blocks :
            TopLevel(input)[i].kind = "Source"
              => /\ blocks[i].kind = "Source"
                 /\ blocks[i].filename = TopLevel(input)[i].arg
                 /\ blocks[i].optional <=> TopLevel(input)[i].kw \in {"OSource", "ORSource"}
                 /\ blocks[i].relative <=> TopLevel(input)[i].kw \in {"RSource", "ORSource"}

C15_Witness ==
    /\ pc = "done"
    /\ input = <<Leaf("Source", "ORSource", <<"/", "t", "m", "p", "/", "f">>)>>
    /\ blocks[1].kind = "Source"
    /\ blocks[1].filename = <<"/", "t", "m", "p", "/", "f">>
    /\ blocks[1].optional /\ blocks[1].relative

\* The kind of the first token written after the complete line.
TailToken(tail) ==
    CASE tail = <<" ", "B">> -> "Symbol"
      [] tail = <<" ", "i", "f", " ", "B">> -> "If"
      [] tail = <<" ", ")">> -> "RParen"

\* The parse of a text whose line under test is followed by tail: accepted
\* when nothing follows, refused at the first token that does.
WholeLine(tail) ==
    IF tail = <<>> THEN pc = "done"
    ELSE /\ pc = "failed"
         /\ err.kind = "Unexpected" /\ err.io = TailToken(tail) /\ err.name = "Eol"

\* C24: a default, select, imply, range, prompt, type-with-prompt, depends
\* on, visible if or if line is accepted only when all its tokens are
\* consumed: any token after its last expression makes the parse fail with
\* Unexpected(token, Eol).
C24_WholeLineConsumed ==
    Terminated
      => \A tail \in Tails :
            /\ input = IfLine(tail) => WholeLine(tail)
            /\ \A a \in Conditional : input = LineProgram(a, tail) => WholeLine(tail)

\* The keywords that start or close a block.
BlockKeywords ==
    {"Choice", "Config", "MenuConfig", "Menu", "If", "Mainmenu",
     "Source", "OSource", "RSource", "ORSource", "EndChoice", "EndIf", "EndMenu"}

\* Config::parse is in its loop.
InConfig == pc = "parsing" /\ Top = "Config"

\* The index of the line that holds the config command of the innermost frame.
Header == CHOOSE k \in DOMAIN lines : Loc(lines[k][1]) = stack[Len(stack)].loc

\* C25: Config::parse consumes the header line and the attribute lines that
\* follow it, and nothing more: no line it has consumed after the header
\* starts with a block keyword; at the first line that does, and at the end
\* of the lines, the config is returned to the caller without error and
\* without the line being consumed; at any other line the config goes on.
C25_ConfigEndsAtBlockKeyword ==
    [][InConfig
         => /\ \A k \in (Header + 1)..lines_offset : lines[k][1].token \notin BlockKeywords
            /\ IF (IF AtEof THEN TRUE ELSE Cmd.token \in BlockKeywords)
               THEN /\ pc' = "parsing" /\ err' = err
                    /\ lines_offset' = lines_offset
                    /\ Len(stack') = Len(stack) - 1
                    /\ Len(stack) = 1
                          => /\ Len(blocks') = Len(blocks) + 1
                             /\ blocks'[Len(blocks')].name = stack[1].blk.name
                    /\ Len(stack) > 1
                          => stack'[Len(stack')].blk # stack[Len(stack) - 1].blk
               ELSE Len(stack') = Len(stack)]_vars

\* A config with a select line has been returned at the line `config FOO`,
\* which is still the next line.
C25_Witness ==
    /\ pc = "parsing" /\ stack = <<>>
    /\ Len(blocks) = 1 /\ blocks[1].kind = "Config" /\ Len(blocks[1].selects) = 1
    /\ lines_offset = 2 /\ ~AtEof /\ Cmd.token = "Config"

\* C26: the block parser never aborts: whatever lines the lexer hands it,
\* the parse ends with the blocks or with an error value, and a line whose
\* keyword its context has no arm for is reported as an error.
C26_NeverAborts ==
    /\ pc # "panicked"
    /\ (Terminated /\ input \in Unhandled) => pc = "failed"

\* The list the operation was applied to, as it was before the call:
\* the parsed list for resolve_blocks_recursive, the blocks of a new KConfig
\* for read_from_str.
BeforeCall == IF api = "recursive" THEN input ELSE <<>>

\* C28: when resolving or reading fails, the block list it was applied to is
\* what it was before the call: nothing removed, added, reordered or
\* modified.
C28_FailureLeavesBlocks == pc = "failed" => blocks = BeforeCall

----------------------------------------------------------------------------
(* Source expansion one call at a time.  SpecResolve takes the whole of    *)
(* s.evaluate(...) as one step; here every call it makes is a frame on     *)
(* stack, so that a chain of files that never ends is a behaviour that     *)
(* never leaves the call.                                                  *)

\* How many calls may be open at once: the recursion of the code has no
\* bound of its own but the size of the machine's stack.
MaxCalls == 7

\* One open call: the list it walks, the position in it, and what it has
\* resolved so far.
Call(k, bs, dir, c, opt, b) ==
    [kind |-> k, blocks |-> bs, i |-> 1, base_dir |-> dir, cond |-> c,
     out |-> <<>>, optional |-> opt, blk |-> b]

Current == stack[Len(stack)]
Caller == stack[Len(stack) - 1]
Here == Current.blocks[Current.i]
AtEnd == Current.i > Len(Current.blocks)

\* The caller's frame once the call above it has returned bs.
Resumed(bs) ==
    [stack EXCEPT ![Len(stack)] = [@ EXCEPT !.i = @ + 1, !.out = @ \o bs]]

Returning(bs) ==
    SubSeq(stack, 1, Len(stack) - 2)
        \o <<[Caller EXCEPT !.i = @ + 1, !.out = @ \o bs]>>

\* source.rs 102-109: the file a Source names.
SourcePath(s, base_dir) == <<SourceDir(s, base_dir), s.filename.path>>

\* source.rs 68-114 up to the point where the text is resolved: the unknown
\* variable, the failure to open the file and the failure to parse it.
SourceText(s, base_dir) ==
    IF s.filename.var # "" /\ s.filename.var \notin ContextVars
    THEN Err(UnknownEnv(s.filename.var))
    ELSE IF s.filename.inline
    THEN KConfig_from_str_raw(<<InlineDir, s.filename.path>>, base_dir)
    ELSE IF OpenFile(SourcePath(s, base_dir)).st # "ok"
    THEN OpenFile(SourcePath(s, base_dir))
    ELSE KConfig_from_str_raw(SourcePath(s, base_dir), SourceDir(s, base_dir))

\* source.rs 93-99, 110-114: the call that resolves the text of a Source.
SourceCall(s, t, bs) ==
    IF s.filename.inline
    THEN Call("inline", bs, t.base_dir, t.cond, FALSE, s)
    ELSE Call("file", bs, SourceDir(s, t.base_dir), NoExpr, s.optional, s)

\* What a finished call hands to its caller.
CallResult(t) ==
    IF t.kind = "file" THEN Ok(t.blocks)
    ELSE IF t.kind = "menu" THEN MenuUnder(MenuResult(t.blk, Ok(t.out)), t.cond)
    ELSE Ok(t.out)

\* The top-level lists of this specification: a source of f, alone, after a
\* config, inside an if, optional, relative, and after a source that fails.
SourceInputs ==
    {ParsedBlocks(raw, TopDir, BaseDir) :
        raw \in {<<Src("f", FALSE, FALSE)>>,
                 <<Src("f", TRUE, FALSE)>>,
                 <<Src("f", FALSE, TRUE)>>,
                 <<Config(Nm(1, 1), <<>>), Src("f", FALSE, FALSE)>>,
                 <<IfBlock(CondA, <<Src("f", FALSE, FALSE)>>), Config(Nm(2, 1), <<>>)>>,
                 <<Src("nx", TRUE, FALSE), Src("f", FALSE, FALSE)>>,
                 <<Source([var |-> "", inline |-> TRUE, path |-> "i"], FALSE, FALSE),
                   Src("f", TRUE, FALSE)>>}}

\* Files f and g of the base directory and f of the top-level directory.
SourceFsOf(f, g, tf) ==
    (<<BaseDir, "f">> :> f) @@ (<<BaseDir, "g">> :> g) @@ (<<TopDir, "f">> :> tf)
    @@ (<<InlineDir, "i">> :> File("ok", <<IfBlock(CondC, <<Config(FNm("i", 1), <<>>)>>)>>))

UnsetSrc == Source([var |-> "UNSET", inline |-> FALSE, path |-> "f"], FALSE, FALSE)

\* File sets in which f sources itself, directly or through g.
CyclicFs ==
    {SourceFsOf(File("ok", f), MissingFile, File("ok", <<Src("f", FALSE, TRUE)>>)) :
        f \in {<<Src("f", FALSE, FALSE)>>,
               <<Config(FNm("f", 1), <<>>), IfBlock(CondC, <<Src("f", FALSE, FALSE)>>)>>,
               <<Menu(FNm("f", 1), <<>>, <<Src("f", TRUE, FALSE)>>)>>,
               <<Src("nx", TRUE, FALSE), Src("f", FALSE, FALSE)>>,
               <<Src("nx", FALSE, FALSE), Src("f", FALSE, FALSE)>>,
               <<UnsetSrc, Src("f", FALSE, FALSE)>>}}
    \cup {SourceFsOf(File("ok", <<Src("g", FALSE, FALSE)>>), File("ok", g),
                     File("ok", <<Config(FNm("tf", 1), <<>>)>>)) :
            g \in {<<Config(FNm("g", 1), <<>>), Src("f", FALSE, FALSE)>>,
                   <<Src("nx", FALSE, FALSE), Src("f", FALSE, FALSE)>>}}

\* File sets in which no file reaches itself.
AcyclicFs ==
    {SourceFsOf(f, g, File("ok", <<Config(FNm("tf", 1), <<>>)>>)) :
        f \in FContents, g \in GContents}
    \cup {SourceFsOf(File("ok", <<Src("g", FALSE, FALSE), Src("g", TRUE, FALSE)>>),
                     File("ok", <<IfBlock(CondC, <<Config(FNm("g", 1), <<>>)>>)>>),
                     File("ok", <<Src("g", FALSE, TRUE)>>))}

SourceFs == CyclicFs \cup AcyclicFs

InitSource ==
    /\ pc = "start"
    /\ api = "none"
    /\ input \in SourceInputs
    /\ files \in SourceFs
    /\ blocks = <<>>
    /\ idx = 0
    /\ err = NoErr
    /\ returned = Ok(<<>>)
    /\ last = NoLast
    /\ LexerIdle
    /\ ParserIdle

\* block.rs 190-197: the Source at the head of the worklist is taken and
\* s.evaluate(base_dir, context) is called.
Evaluate ==
    /\ pc = "loop" /\ idx <= Len(blocks)
    /\ blocks[idx].kind = "Source"
    /\ pc' = "evaluating"
    /\ stack' = <<Call("evaluate", <<blocks[idx]>>, BaseDir, NoExpr, FALSE, blocks[idx])>>
    /\ UNCHANGED <<api, files, input, blocks, idx, err, returned, last, lines_offset>>
    /\ UNCHANGED lexVars

\* source.rs 64-132: Source::resolve_block up to its call of
\* KConfig::from_file or of resolve_block on the inline text.
SourceOpen ==
    /\ pc = "evaluating" /\ ~AtEnd /\ Here.kind = "Source"
    /\ LET r == SourceText(Here, Current.base_dir) IN
       IF r.st = "ok"
       THEN /\ Len(stack) < MaxCalls
            /\ stack' = Append(stack, SourceCall(Here, Current, r.blocks))
            /\ UNCHANGED <<pc, err>>
       ELSE IF ~Here.filename.inline /\ AbsorbsError(r.err, Here.optional)
       THEN /\ stack' = Resumed(<<>>)
            /\ UNCHANGED <<pc, err>>
       ELSE /\ pc' = "unwinding"
            /\ err' = r.err
            /\ UNCHANGED stack
    /\ UNCHANGED <<api, files, input, blocks, idx, returned, last, lines_offset>>
    /\ UNCHANGED lexVars

\* ifblock.rs 72-97 and menu.rs 116-131: the items of an if block are
\* resolved under the combined condition, the blocks of a menu under the
\* parent's.
NestedOpen ==
    /\ pc = "evaluating" /\ ~AtEnd /\ Here.kind \in {"If", "Menu"}
    /\ Len(stack) < MaxCalls
    /\ stack' = Append(stack,
                   IF Here.kind = "If"
                   THEN Call("if", Here.items, Current.base_dir,
                             SubCondition(Current.cond, Here.condition), FALSE, Here)
                   ELSE Call("menu", Here.items, Current.base_dir, Current.cond, FALSE, Here))
    /\ UNCHANGED <<pc, api, files, input, blocks, idx, err, returned, last, lines_offset>>
    /\ UNCHANGED lexVars

\* Any other block resolves to itself under the parent condition.
BlockKept ==
    /\ pc = "evaluating" /\ ~AtEnd /\ Here.kind \notin {"Source", "If", "Menu"}
    /\ stack' = Resumed(<<AppendParentCond(Here, Current.cond)>>)
    /\ UNCHANGED <<pc, api, files, input, blocks, idx, err, returned, last, lines_offset>>
    /\ UNCHANGED lexVars

\* A call inside s.evaluate(...) returns to its caller: kconfig.rs 37-39
\* for a file, menu.rs 133-143 for a menu.
CallReturn ==
    /\ pc = "evaluating" /\ AtEnd /\ Current.kind # "evaluate"
    /\ IF CallResult(Current).st = "ok"
       THEN /\ stack' = Returning(CallResult(Current).blocks)
            /\ UNCHANGED pc
       ELSE /\ pc' = Outcome(CallResult(Current).st)
            /\ UNCHANGED stack
    /\ UNCHANGED <<api, files, input, blocks, idx, err, returned, last, lines_offset>>
    /\ UNCHANGED lexVars

\* block.rs 197-198: s.evaluate(...) returns its blocks to the worklist.
EvaluateReturn ==
    /\ pc = "evaluating" /\ AtEnd /\ Current.kind = "evaluate"
    /\ ApplyStep(SourceStep(RemoveAt(blocks, idx), idx, Ok(Current.out)))
    /\ stack' = <<>>
    /\ last' = [op |-> "source", block |-> blocks[idx], res |-> Ok(Current.out)]
    /\ UNCHANGED <<api, files, input, returned, lines_offset>>
    /\ UNCHANGED lexVars

\* The ? operator: an error leaves one call.  source.rs 116-129 stops it at
\* the Source whose file was being read, if that Source absorbs it; block.rs
\* 197 hands it to the caller of resolve_blocks_recursive.
Unwind ==
    /\ pc = "unwinding"
    /\ IF Current.kind = "evaluate"
       THEN /\ ApplyStep(SourceStep(RemoveAt(blocks, idx), idx, Err(err)))
            /\ stack' = <<>>
            /\ last' = [op |-> "source", block |-> blocks[idx], res |-> Err(err)]
       ELSE IF Current.kind = "file" /\ AbsorbsError(err, Current.optional)
       THEN /\ stack' = Returning(<<>>)
            /\ pc' = "evaluating"
            /\ err' = NoErr
            /\ UNCHANGED <<blocks, idx, last>>
       ELSE /\ stack' = SubSeq(stack, 1, Len(stack) - 1)
            /\ UNCHANGED <<pc, err, blocks, idx, last>>
    /\ UNCHANGED <<api, files, input, returned, lines_offset>>
    /\ UNCHANGED lexVars

NextSource ==
    \/ ResolveBegin
    \/ Evaluate
    \/ SourceOpen
    \/ NestedOpen
    \/ BlockKept
    \/ CallReturn
    \/ EvaluateReturn
    \/ Unwind
    \/ ResolveIf
    \/ ResolveOther
    \/ ResolveReturn

\* The resolver is one sequential computation: while it has a next step it
\* takes it.
SpecSource == InitSource /\ [][NextSource]_vars /\ WF_vars(NextSource)

----------------------------------------------------------------------------
(* Termination of the resolver.                                            *)

\* The names of the files the blocks bs source, at any nesting depth.
RECURSIVE SourceNames(_)
SourceNames(bs) ==
    UNION {IF bs[i].kind = "Source"
           THEN (IF bs[i].filename.inline \/ UnsetVar(bs[i])
                 THEN {} ELSE {bs[i].filename.path})
           ELSE SourceNames(bs[i].items) : i \in 1..Len(bs)}

Existing == {p \in DOMAIN files : files[p].state = "ok"}

\* The existing files that the file at p sources: every name in it is looked
\* up in the directory the file itself was found in.
Includes(p) == {q \in Existing : q[1] = p[1] /\ q[2] \in SourceNames(files[p].blocks)}

RECURSIVE Reaches(_, _)
Reaches(S, n) ==
    IF n = 0 THEN S ELSE Reaches(S \cup UNION {Includes(q) : q \in S}, n - 1)

\* The file at p sources itself, directly or through other existing files.
SourcesItself(p) ==
    p \in Existing /\ p \in Reaches(Includes(p), Cardinality(Existing))

Acyclic == \A p \in DOMAIN files : ~SourcesItself(p)

\* A step of the worklist that leaves it running.
WorklistStep == pc' = "loop" /\ pc # "start" /\ <<blocks, idx>>' # <<blocks, idx>>

Advances ==
    /\ idx' = idx + 1
    /\ Len(blocks') = Len(blocks)
    /\ \A j \in 1..Len(blocks) : j # idx => blocks'[j] = blocks[j]

Replaces ==
    /\ idx' = idx
    /\ blocks[idx].kind \in {"Source", "If"}
    /\ Len(blocks') >= Len(blocks) - 1
    /\ \A j \in 1..Len(blocks) :
          /\ j < idx => blocks'[j] = blocks[j]
          /\ j > idx => blocks'[j - 1] = blocks[j]

\* The worklist is inside s.evaluate(...) of a Source whose file sources
\* itself.
InSelfSource ==
    /\ pc \in {"evaluating", "unwinding"}
    /\ SourcesItself(SourcePath(blocks[idx], BaseDir))

\* C27: when no file sources itself, directly or through other files,
\* resolution terminates with a tree or an error; every step of the worklist
\* either advances past one block or replaces one Source or If block by a
\* finite list; and the resolution of a file that sources itself through
\* existing files never returns.
C27_TerminatesUnlessCyclic ==
    /\ (Acyclic ~> pc \in {"done", "failed"})
    /\ [][WorklistStep => (Advances \/ Replaces)]_vars
    /\ [][InSelfSource => pc' \in {"evaluating", "unwinding"}]_vars

----------------------------------------------------------------------------
(* Physical lines (parser/line.rs).                                        *)

\* How long the text handed to read_line may be.
MaxData == 4

LineChars == {"a", " ", "\t", "\\", "\n"}

RECURSIVE Texts(_)
Texts(n) ==
    IF n = 0 THEN {<<>>}
    ELSE Texts(n - 1) \cup {Append(t, c) : t \in {u \in Texts(n - 1) : Len(u) = n - 1},
                                            c \in LineChars}

NoLine == [kind |-> "None", line |-> <<>>, remaining |-> <<>>, next_location |-> NoScan]

\* ReadLineResult (line.rs 5-9)
SomeLine(line, remaining, loc) ==
    [kind |-> "Some", line |-> line, remaining |-> remaining, next_location |-> loc]

NextLine(loc) == [loc EXCEPT !.line = @ + 1, !.column = 1]

\* line.rs 20-56: the loop of read_line from character i on, and what
\* follows it at the end of data.
RECURSIVE read_line_from(_, _, _, _, _)
read_line_from(data, i, line, loc, last_was_backslash) ==
    IF i > Len(data)
    THEN (IF line = <<>> THEN NoLine ELSE SomeLine(line, <<>>, loc))
    ELSE IF last_was_backslash
    THEN read_line_from(data, i + 1, line,
                        IF data[i] = "\n" THEN NextLine(loc) ELSE loc, FALSE)
    ELSE IF data[i] = "\\" THEN read_line_from(data, i + 1, line, loc, TRUE)
    ELSE IF data[i] = "\n" THEN SomeLine(line, SubSeq(data, i + 1, Len(data)), NextLine(loc))
    ELSE IF data[i] = "\t"
    THEN read_line_from(data, i + 1, line, [loc EXCEPT !.column = TabStop(@)], FALSE)
    ELSE read_line_from(data, i + 1, Append(line, data[i]),
                        [loc EXCEPT !.column = @ + 1], FALSE)

\* line.rs 15-57
read_line(location, data) == read_line_from(data, 1, <<>>, location, FALSE)

\* str::trim().is_empty(): nothing but white space.
Blank(line) == \A i \in 1..Len(line) : IsWhitespace(line[i])

\* line.rs 64-79: the result of read_line on what the blank lines before it
\* left of data.
RECURSIVE read_nonempty_line(_, _)
Reread(r) ==
    IF r.kind = "None" \/ ~Blank(r.line) THEN r
    ELSE read_nonempty_line(r.next_location, r.remaining)

read_nonempty_line(location, data) == Reread(read_line(location, data))

InitLine ==
    /\ pc = "start"
    /\ src \in Texts(MaxData)
    /\ scan = NoScan
    /\ text = <<>>
    /\ lines = <<>> /\ expr = NoExpr /\ expr2 = NoExpr
    /\ err = NoErr
    /\ ParserIdle
    /\ ResolverIdle

\* What the caller hands to the next call: the whole text at first, then
\* the remaining of the call before.
Unread == IF pc = "start" THEN src ELSE SubSeq(src, scan.at + 1, Len(src))

LineRead(r, fn) ==
    /\ pc' = IF r.kind = "None" THEN "none" ELSE "some"
    /\ api' = fn
    /\ src' = Unread
    /\ text' = r.line
    /\ scan' = [r.next_location EXCEPT !.at = Len(Unread) - Len(r.remaining),
                                       !.offset = Len(Unread) - Len(r.remaining)]
    /\ UNCHANGED <<files, input, blocks, idx, returned, last>>
    /\ UNCHANGED <<lines, expr, expr2, err>>
    /\ UNCHANGED parseVars

\* line.rs 15: read_line(location, data).
ReadLine ==
    /\ pc \in {"start", "some"}
    /\ LineRead(read_line(scan, Unread), "read_line")

\* line.rs 64: read_nonempty_line(location, data).
ReadNonemptyLine ==
    /\ pc \in {"start", "some"}
    /\ LineRead(read_nonempty_line(scan, Unread), "read_nonempty_line")

NextLineStep ==
    \/ ReadLine
    \/ ReadNonemptyLine

SpecLine == InitLine /\ [][NextLineStep]_vars

\* A text without its backslash-newline pairs.
RECURSIVE Joined(_)
Joined(t) ==
    IF t = <<>> THEN <<>>
    ELSE IF Len(t) >= 2 /\ t[1] = "\\" /\ t[2] = "\n" THEN Joined(SubSeq(t, 3, Len(t)))
    ELSE <<t[1]>> \o Joined(Tail(t))

\* The first newline of t that no backslash precedes; past the end if there
\* is none.
LineEnd(t) ==
    IF \E n \in 1..Len(t) : t[n] = "\n" /\ (n = 1 \/ t[n - 1] # "\\")
    THEN CHOOSE n \in 1..Len(t) :
            /\ t[n] = "\n" /\ (n = 1 \/ t[n - 1] # "\\")
            /\ \A m \in 1..(n - 1) : ~(t[m] = "\n" /\ (m = 1 \/ t[m - 1] # "\\"))
    ELSE Len(t) + 1

\* C29: read_line returns the characters up to the first newline that no
\* backslash precedes, without the backslash-newline pairs and with every
\* other character kept in order; remaining is what follows that newline;
\* None is returned only at the end of an input without content.
C29_ReadLine ==
    api = "read_line" =>
        /\ pc = "some" =>
              /\ text = Joined(SubSeq(src, 1, LineEnd(src) - 1))
              /\ SubSeq(src, scan.at + 1, Len(src)) = SubSeq(src, LineEnd(src) + 1, Len(src))
        /\ pc = "none" => LineEnd(src) > Len(src) /\ Joined(src) = <<>>

====
